---- MODULE Spec2Model ----
(***************************************************************************)
(* Model of the map pin tracker of ipfs-cluster (tracker/map_pin.go).      *)
(*                                                                         *)
(* The tracker keeps a map Cid -> PinInfo guarded by one mutex, two        *)
(* bounded channels (pinCh, unpinCh) and two worker goroutines.  Every     *)
(* critical section of the mutex, every channel operation and every RPC    *)
(* to the IPFS daemon is one atomic step; computation on goroutine-local   *)
(* values is folded into the neighbouring step.                            *)
(***************************************************************************)
EXTENDS Integers, Sequences, FiniteSets, TLC

\* ------------------------------------------------------------------ bounds
\* API calls the client makes
MaxOps == 2
\* operations committed to the log
MaxLog == 3
\* calls of LogPin, LogUnpin, LogAddPeer and LogRmPeer the caller makes
MaxCalls == 1
\* changes of the leader
MaxElections == 2
\* snapshots in the data folder after which the component is not started
\* again
MaxSnapshots == 2
\* calls of Allocate
MaxAllocs == 2
\* calls of addPeer and rmPeer
MaxPmCalls == 2

\* ------------------------------------------------------- program constants
\* The clock of the model counts ticks of 8 minutes.  A reading of the clock
\* is a whole number of ticks, so time.Since(ts) > 15 min is an age of more
\* than one tick and time.Since(ts) > 10 s is an age of more than no tick.
PinningTimeout == 1
UnpinningTimeout == 0
\* A time stamp is kept as its distance from the present reading of the
\* clock: time.Now() is the stamp Now, time.Since(ts) is ts itself, and a
\* tick of the clock makes every stamp one older.  The code only compares
\* time.Since(ts) with the two timeouts, so stamps older than MaxAge are not
\* told apart.
Now == 0
MaxAge == PinningTimeout + 1
\* capacity of pinCh and of unpinCh (a package variable, 1024 by default)
PinQueueSize == 1

Cids == {"c1", "c2"}
Self == "peerA"
Peers == {"peerA", "peerB"}
\* a peer that is not in the cluster
NewPeer == "peerC"
\* the zero peer.ID: what Leader() returns with its error, and the
\* destination of an RPC that the local server answers
NoLeader == ""
\* CommitRetries (a package variable)
CommitRetries == 2
Clients == {"client"}
Workers == {"pinWorker", "unpinWorker"}
Threads == Clients \cup Workers
\* the callers of mapPinTracker.Shutdown and those of Consensus.Shutdown
Stoppers == {"stopper1", "stopper2"}
\* the callers of peerManager.addPeer and peerManager.rmPeer
PmCallers == {"caller1", "caller2"}
\* a caller of the peer manager that is in no call
NoAddr == [ID |-> "", Addr |-> ""]
NoPmCall ==
  [op |-> "", pc |-> "idle", addr |-> NoAddr, peer |-> "", err |-> ""]

\* api.TrackerStatus
TrackerStatusPinError == "PinError"
TrackerStatusUnpinError == "UnpinError"
TrackerStatusPinned == "Pinned"
TrackerStatusPinning == "Pinning"
TrackerStatusUnpinning == "Unpinning"
TrackerStatusUnpinned == "Unpinned"
TrackerStatusRemote == "Remote"
TrackerStatuses ==
  {TrackerStatusPinError, TrackerStatusUnpinError, TrackerStatusPinned,
   TrackerStatusPinning, TrackerStatusUnpinning, TrackerStatusUnpinned,
   TrackerStatusRemote}

\* errors (the text of err.Error()); NoErr is the nil error / empty string
NoErr == ""
errUnpinningTimeout == "unpinning operation is taking too long"
errPinningTimeout == "pinning operation is taking too long"
errPinned == "the item is unexpectedly pinned on IPFS"
errUnpinned == "the item is unexpectedly not pinned on IPFS"
ErrPinQueueFull == "pin queue is full"
ErrUnpinQueueFull == "unpin queue is full"
\* the error of a failed RPC to the IPFS daemon
ErrIPFS == "ipfs daemon error"

\* api.IPFSPinStatus as far as the tracker looks at it (IsPinned or not)
IPFSPinStatusPinned == "pinned"
IPFSPinStatusUnpinned == "unpinned"
IsPinned(ips) == ips = IPFSPinStatusPinned

\* ------------------------------------------------------------------- state
VARIABLES
  status,   \* mpt.status: function from the tracked Cids to their PinInfo
  pinCh,    \* mpt.pinCh: buffered channel, a sequence of Cids
  unpinCh,  \* mpt.unpinCh
  ipfs,     \* the pin set of the IPFS daemon behind the RPC calls
  pc,       \* position of every goroutine
  loc,      \* goroutine-local values: caller, Cid, p, err
  ret,      \* what the last finished API call returned to the client
  healthy,  \* history: no daemon call failed and nobody changed the
            \* daemon's pin set behind the tracker's back
  hist,     \* history per Cid: the Track/Untrack calls accepted so far
  nops,     \* number of API calls started
  \* mapPinTracker.Shutdown
  shutdown,      \* mpt.shutdown
  ctxDone,       \* mpt.ctx has been cancelled
  rpcReady,      \* mpt.rpcReady: "open" or "closed"
  shutdownLock,  \* mpt.shutdownLock: the caller that holds it, or ""
  spc,           \* position of every caller of mpt.Shutdown
  sret,          \* what mpt.Shutdown returned to every caller
  cancels,       \* history: cancellations of mpt.ctx that took effect or
                 \* would have
  closes,        \* history: calls of close(mpt.rpcReady)
  left,          \* history: the queues and the workers' positions when
                 \* Shutdown set mpt.shutdown and returned
  \* Consensus (cluster/peerutils.go)
  ccShutdown,    \* cc.shutdown
  ccRpcReady,    \* cc.rpcReady: "open" or "closed"
  ccShutdownCh,  \* cc.shutdownCh: the number of buffered signals
  ccLock,        \* cc.shutdownLock: the caller that holds it, or ""
  ccRun,         \* the goroutine of run(): "waiting" or "exited"
  ccRaft,        \* cc.raft: "up" or "down"
  ccSnapshots,   \* the snapshots raft has taken, in the data folder: the
                 \* state and the length of the log at each
  ccPc,          \* position of every caller of cc.Shutdown
  ccErrs,        \* errMsgs of every caller of cc.Shutdown
  ccRet,         \* what cc.Shutdown returned to every caller
  ccClient,      \* cc.rpcClient is set
  ccRpcBuf,      \* the signals waiting in cc.rpcReady
  ccReadyCh,     \* the signals waiting in cc.readyCh
  ccBoot,        \* where finishBootstrap stands
  ccSetPc,       \* where the caller of cc.SetClient stands
  ccSync,        \* what cc.WaitForSync returned to finishBootstrap
  ccReadySent,   \* history: the signals sent to cc.readyCh
  \* the shared state and the log of operations
  PinMap,        \* mapState.PinMap: function from Cid strings to CidArgSerial
  log,           \* the operations committed to the log of raft, in order
  \* the log operations of Consensus
  leader,        \* the leader raft knows of, or NoLeader
  elections,     \* history: the changes of the leader so far
  lstack,        \* the running calls of LogPin, LogUnpin, LogAddPeer and
                 \* LogRmPeer: the caller's, and above it those the local
                 \* RPC server runs for it
  lret,          \* what the caller's last call returned
  lcalls,        \* history: calls the caller has made
  rpcs,          \* history: the RPC calls sent, in order
  raftPeers,     \* the peers in the configuration of raft's transport
  \* peerManager (peer_manager.go)
  peerSet,       \* pm.peerSet
  peerstore,     \* the addresses in the Peerstore of the host, per peer
  clusterPeers,  \* the list of peers in the Config, in order
  savedPeers,    \* the list of peers in the Config as last saved
  pmPc,          \* the running call of addPeer or rmPeer of every caller
  pmCalls,       \* history: the calls of addPeer and rmPeer so far
  pmEffects,     \* history: what the calls did to the Peerstore, the
                 \* Config and the Consensus component, in order
  selfPc,        \* where the goroutine stands that rmPeer starts when the
                 \* peer removed is the local one
  selfErr,       \* what cluster.Shutdown returned to selfShutdown
  raftDb,        \* the file raft.db in the data folder of Consensus
  \* allocator (allocator/numpin.go)
  allocCalls     \* history: the calls of Allocate, what they were given
                 \* and what they returned

\* the state of the map, the queues, the daemon and their goroutines
tracker == <<status, pinCh, unpinCh, ipfs, pc, loc, ret, healthy, hist, nops>>
\* the state of mapPinTracker.Shutdown
lifecycle ==
  <<shutdown, ctxDone, rpcReady, shutdownLock, spc, sret, cancels, closes,
    left>>
\* the state of the Consensus component
bootstrap ==
  <<ccClient, ccRpcBuf, ccReadyCh, ccBoot, ccSetPc, ccSync, ccReadySent>>

\* the shared state behind the Consensus component
oplog == <<PinMap, log>>

\* the state of the log operations
logcall == <<leader, elections, lstack, lret, lcalls, rpcs, raftPeers>>

\* the state of the peer manager
peermgr ==
  <<peerSet, peerstore, clusterPeers, savedPeers, pmPc, pmCalls, pmEffects,
    selfPc, selfErr, raftDb>>

\* the state outside the tracker and the Consensus component
cluster == <<peermgr, allocCalls>>

consensus ==
  <<ccShutdown, ccRpcReady, ccShutdownCh, ccLock, ccRun, ccRaft, ccSnapshots,
    ccPc, ccErrs, ccRet, bootstrap, oplog, logcall>>

vars == <<tracker, lifecycle, consensus, cluster>>

\* ---------------------------------------------------------------- helpers
MapPut(m, k, v) == [x \in DOMAIN m \cup {k} |-> IF x = k THEN v ELSE m[x]]
MapDel(m, k) == [x \in DOMAIN m \ {k} |-> m[x]]

PinInfo(c, s, ts, e) ==
  [Cid |-> c, Peer |-> Self, Status |-> s, TS |-> ts, Error |-> e]

\* the zero value of the client's return slots
NoInfo == [Cid |-> "", Peer |-> "", Status |-> "", TS |-> 0, Error |-> ""]
NoRet == [op |-> "", info |-> NoInfo, err |-> NoErr, all |-> {}]
NoTodo == [kind |-> "none", s |-> "", err |-> NoErr]
\* SyncAll's locals: ipsMap the Cids the daemon listed, rest the entries of
\* its StatusAll snapshot still to visit, orig the one being visited, pInfos
\* the list it returns
NoOrig == [Cid |-> "", Status |-> ""]
NoLoc == [op |-> "", c |-> "", p |-> NoInfo, ips |-> "", err |-> NoErr,
          todo |-> NoTodo, ipsMap |-> {}, rest |-> {}, orig |-> NoOrig,
          pInfos |-> {}]

\* a clock on which no time passes
SinceNever(ts) == Now

\* time.Since(ts)
Since(ts) == ts
\* a PinInfo after one tick of the clock (the zero value carries no stamp)
Older(i) ==
  IF i.Status = "" \/ i.TS >= MaxAge THEN i ELSE [i EXCEPT !.TS = @ + 1]

\* unsafeSet without the delete of line 126-129
unsafeSetKeep(m, c, s) == MapPut(m, c, PinInfo(c, s, Now, NoErr))

\* unsafeSet that writes the status and the stamp and keeps the error the
\* entry had
unsafeSetStale(m, c, s) ==
  IF s = TrackerStatusUnpinned
    THEN MapDel(m, c)
    ELSE MapPut(m, c, PinInfo(c, s, Now,
                              IF c \in DOMAIN m THEN m[c].Error ELSE NoErr))

\* mapPinTracker.unsafeSet
unsafeSet(m, c, s) ==
  IF s = TrackerStatusUnpinned
    THEN MapDel(m, c)
    ELSE MapPut(m, c, PinInfo(c, s, Now, NoErr))

\* mapPinTracker.unsafeGet
unsafeGet(m, c) ==
  IF c \notin DOMAIN m
    THEN PinInfo(c, TrackerStatusUnpinned, Now, NoErr)
    ELSE m[c]

\* unsafeSetError with the switch on the current status left out: every
\* error is recorded on the pin side
unsafeSetErrorPinSide(m, c, err) ==
  IF unsafeGet(m, c).Status = TrackerStatusRemote
    THEN m
    ELSE MapPut(m, c, PinInfo(c, TrackerStatusPinError, Now, err))

\* unsafeSetError with a Remote entry taken for one on the pin side
unsafeSetErrorOfRemote(m, c, err) ==
  IF unsafeGet(m, c).Status \in {TrackerStatusUnpinned, TrackerStatusUnpinning,
                                 TrackerStatusUnpinError}
    THEN MapPut(m, c, PinInfo(c, TrackerStatusUnpinError, Now, err))
    ELSE MapPut(m, c, PinInfo(c, TrackerStatusPinError, Now, err))

\* mapPinTracker.unsafeSetError
unsafeSetError(m, c, err) ==
  LET p == unsafeGet(m, c) IN
  CASE p.Status \in {TrackerStatusPinned, TrackerStatusPinning,
                     TrackerStatusPinError}
         -> MapPut(m, c, PinInfo(c, TrackerStatusPinError, Now, err))
    [] p.Status \in {TrackerStatusUnpinned, TrackerStatusUnpinning,
                     TrackerStatusUnpinError}
         -> MapPut(m, c, PinInfo(c, TrackerStatusUnpinError, Now, err))
    [] OTHER -> m

\* mapPinTracker.isRemote on an api.CidArg
isRemote(arg) ==
  IF arg.Everywhere THEN FALSE ELSE Self \notin arg.Allocations

CidArgs ==
  [Cid : Cids, Allocations : {{"peerA"}, {"peerB"}}, Everywhere : BOOLEAN]

\* ------------------------------------------------------------------- Init
\* NewMapPin: empty map, empty channels, both workers waiting, nothing shut
\* down; NewConsensus: raft up, the goroutine of run() waiting
Init ==
  /\ status = << >>
  /\ pinCh = << >>
  /\ unpinCh = << >>
  /\ ipfs = {}
  /\ pc = [t \in Threads |-> "idle"]
  /\ loc = [t \in Threads |-> NoLoc]
  /\ ret = [t \in Clients |-> NoRet]
  /\ healthy = TRUE
  /\ hist = [c \in Cids |-> "none"]
  /\ nops = 0
  /\ shutdown = FALSE
  /\ ctxDone = FALSE
  /\ rpcReady = "open"
  /\ shutdownLock = ""
  /\ spc = [k \in Stoppers |-> "idle"]
  /\ sret = [k \in Stoppers |-> "none"]
  /\ cancels = 0
  /\ closes = 0
  /\ left = [pinCh |-> << >>, unpinCh |-> << >>,
             pc |-> [w \in Workers |-> "idle"]]
  /\ ccShutdown = FALSE
  /\ ccRpcReady = "open"
  /\ ccShutdownCh = 0
  /\ ccLock = ""
  /\ ccRun = "waiting"
  /\ ccRaft = "up"
  /\ ccSnapshots = << >>
  /\ ccPc = [k \in Stoppers |-> "idle"]
  /\ ccErrs = [k \in Stoppers |-> {}]
  /\ ccRet = [k \in Stoppers |-> "none"]
  /\ ccClient = FALSE
  /\ ccRpcBuf = 0
  /\ ccReadyCh = 0
  /\ ccBoot = "sync"
  /\ ccSetPc = "idle"
  /\ ccSync = "none"
  /\ ccReadySent = 0
  /\ PinMap = << >>
  /\ log = << >>
  /\ leader = NoLeader
  /\ elections = 0
  /\ lstack = << >>
  /\ lret = "none"
  /\ lcalls = 0
  /\ rpcs = << >>
  /\ raftPeers = Peers
  /\ peerSet = Peers
  /\ peerstore = [p \in Peers \ {Self} |-> {"addr1"}]
  /\ clusterPeers = <<[ID |-> "peerB", Addr |-> "addr1"]>>
  /\ savedPeers = <<[ID |-> "peerB", Addr |-> "addr1"]>>
  /\ pmPc = [k \in PmCallers |-> NoPmCall]
  /\ pmCalls = 0
  /\ pmEffects = << >>
  /\ selfPc = "none"
  /\ selfErr = "none"
  /\ raftDb = "present"
  /\ allocCalls = << >>

\* --------------------------------------------------- environment actions
\* the clock ticks: every time stamp held anywhere is one tick older
Tick ==
  /\ status' = [c \in DOMAIN status |-> Older(status[c])]
  /\ loc' = [t \in Threads |->
               [loc[t] EXCEPT !.p = Older(@),
                              !.pInfos = {Older(i) : i \in @}]]
  /\ ret' = [t \in Clients |->
               [ret[t] EXCEPT !.info = Older(@),
                              !.all = {Older(i) : i \in @}]]
  /\ UNCHANGED <<lifecycle, consensus, cluster, pinCh, unpinCh, ipfs, pc, healthy, hist, nops>>

\* somebody pins or unpins a Cid directly on the IPFS daemon
ExternalChange(c) ==
  /\ ipfs' = IF c \in ipfs THEN ipfs \ {c} ELSE ipfs \cup {c}
  /\ healthy' = FALSE
  /\ UNCHANGED <<lifecycle, consensus, cluster, status, pinCh, unpinCh, pc, loc, ret, hist, nops>>

\* ------------------------------------------------ goroutine bookkeeping
Goto(t, l) == pc' = [pc EXCEPT ![t] = l]
SetLoc(t, r) == loc' = [loc EXCEPT ![t] = r]
\* an API call of client t returns
Return(t, r) ==
  /\ pc' = [pc EXCEPT ![t] = "idle"]
  /\ loc' = [loc EXCEPT ![t] = NoLoc]
  /\ ret' = [ret EXCEPT ![t] = r]
\* an API call of client t starts: nothing has been returned yet
Call(t) ==
  /\ pc[t] = "idle"
  /\ nops < MaxOps
  /\ nops' = nops + 1
Pending(t) == ret' = [ret EXCEPT ![t] = NoRet]
RetVal(op, info, err) == [op |-> op, info |-> info, err |-> err, all |-> {}]

\* history of one Cid: "T" one local Track accepted, "TU" then one Untrack
\* accepted, "U" and "UT" the other way round, "R" one Track of a PinSpec
\* allocated elsewhere, "TR" one local Track accepted and then one Track of
\* a PinSpec allocated elsewhere, "other" anything else (a rejected call, a
\* Recover, a third call).  Status and Sync calls are not recorded.
HistNext(h, op) ==
  CASE h = "none" /\ op = "R" -> "R"
    [] h = "T" /\ op = "R" -> "TR"
    [] h = "none" /\ op = "T" -> "T"
    [] h = "none" /\ op = "U" -> "U"
    [] h = "T" /\ op = "U" -> "TU"
    [] h = "U" /\ op = "T" -> "UT"
    [] OTHER -> "other"
Note(c, op) == hist' = [hist EXCEPT ![c] = HistNext(hist[c], op)]

\* where a goroutine goes on when its pin()/unpin() call returns
AfterPin(op) == IF op = "Recover" THEN "Recover_ret" ELSE "idle"
AfterUnpin(op) ==
  CASE op = "Recover" -> "Recover_ret"
    [] op = "Track" -> "Track_setRemote"
    [] OTHER -> "idle"

\* ------------------------------------------------------- pin() and unpin()
\* mapPinTracker.pin, line 203: mpt.set(c.Cid, TrackerStatusPinning)
PinSet(t) ==
  /\ pc[t] = "pin_set"
  /\ status' = unsafeSet(status, loc[t].c, TrackerStatusPinning)
  /\ Goto(t, "pin_call")
  /\ UNCHANGED <<lifecycle, consensus, cluster, pinCh, unpinCh, ipfs, loc, ret, healthy, hist, nops>>

\* mapPinTracker.pin, lines 204-208: the IPFSPin RPC
PinCall(t) ==
  /\ pc[t] = "pin_call"
  /\ \E ok \in BOOLEAN :
       IF ok
         THEN /\ ipfs' = ipfs \cup {loc[t].c}
              /\ SetLoc(t, [loc[t] EXCEPT !.err = NoErr])
              /\ UNCHANGED healthy
         ELSE /\ SetLoc(t, [loc[t] EXCEPT !.err = ErrIPFS])
              /\ healthy' = FALSE
              /\ UNCHANGED ipfs
  /\ Goto(t, "pin_done")
  /\ UNCHANGED <<lifecycle, consensus, cluster, status, pinCh, unpinCh, ret, hist, nops>>

\* pin() whose caller does not survive an error of the daemon
PinDoneFatal(t) ==
  /\ pc[t] = "pin_done"
  /\ status' = IF loc[t].err # NoErr
                 THEN unsafeSetError(status, loc[t].c, loc[t].err)
                 ELSE unsafeSet(status, loc[t].c, TrackerStatusPinned)
  /\ Goto(t, IF loc[t].err # NoErr THEN "failed" ELSE AfterPin(loc[t].op))
  /\ SetLoc(t, IF loc[t].op = "Recover" THEN loc[t] ELSE NoLoc)
  /\ UNCHANGED <<lifecycle, consensus, cluster, pinCh, unpinCh, ipfs, ret, healthy, hist, nops>>

\* mapPinTracker.pin, lines 210-216: setError or set(Pinned)
PinDone(t) ==
  /\ pc[t] = "pin_done"
  /\ status' = IF loc[t].err # NoErr
                 THEN unsafeSetError(status, loc[t].c, loc[t].err)
                 ELSE unsafeSet(status, loc[t].c, TrackerStatusPinned)
  /\ Goto(t, AfterPin(loc[t].op))
  /\ SetLoc(t, IF loc[t].op = "Recover" THEN loc[t] ELSE NoLoc)
  /\ UNCHANGED <<lifecycle, consensus, cluster, pinCh, unpinCh, ipfs, ret, healthy, hist, nops>>

\* mapPinTracker.unpin, lines 220-224: the IPFSUnpin RPC
UnpinCall(t) ==
  /\ pc[t] = "unpin_call"
  /\ \E ok \in BOOLEAN :
       IF ok
         THEN /\ ipfs' = ipfs \ {loc[t].c}
              /\ SetLoc(t, [loc[t] EXCEPT !.err = NoErr])
              /\ UNCHANGED healthy
         ELSE /\ SetLoc(t, [loc[t] EXCEPT !.err = ErrIPFS])
              /\ healthy' = FALSE
              /\ UNCHANGED ipfs
  /\ Goto(t, "unpin_done")
  /\ UNCHANGED <<lifecycle, consensus, cluster, status, pinCh, unpinCh, ret, hist, nops>>

\* mapPinTracker.unpin, lines 226-231: setError or set(Unpinned)
UnpinDone(t) ==
  /\ pc[t] = "unpin_done"
  /\ status' = IF loc[t].err # NoErr
                 THEN unsafeSetError(status, loc[t].c, loc[t].err)
                 ELSE unsafeSet(status, loc[t].c, TrackerStatusUnpinned)
  /\ Goto(t, AfterUnpin(loc[t].op))
  /\ SetLoc(t, IF loc[t].op = "Recover"
                 THEN loc[t]
                 ELSE IF loc[t].op = "Track"
                   THEN [loc[t] EXCEPT !.err = NoErr]
                   ELSE NoLoc)
  /\ UNCHANGED <<lifecycle, consensus, cluster, pinCh, unpinCh, ipfs, ret, healthy, hist, nops>>

\* ------------------------------------------------------------ the workers
\* pinWorker: case p := <-mpt.pinCh
pinWorker ==
  /\ pc["pinWorker"] = "idle"
  /\ pinCh # << >>
  /\ pinCh' = Tail(pinCh)
  /\ SetLoc("pinWorker", [NoLoc EXCEPT !.op = "worker", !.c = Head(pinCh)])
  /\ Goto("pinWorker", "pin_set")
  /\ UNCHANGED <<lifecycle, consensus, cluster, status, unpinCh, ipfs, ret, healthy, hist, nops>>

\* unpinWorker: case p := <-mpt.unpinCh
unpinWorker ==
  /\ pc["unpinWorker"] = "idle"
  /\ unpinCh # << >>
  /\ unpinCh' = Tail(unpinCh)
  /\ SetLoc("unpinWorker", [NoLoc EXCEPT !.op = "worker", !.c = Head(unpinCh)])
  /\ Goto("unpinWorker", "unpin_call")
  /\ UNCHANGED <<lifecycle, consensus, cluster, status, pinCh, ipfs, ret, healthy, hist, nops>>

\* ----------------------------------------------------------------- Track
\* mapPinTracker.Track, lines 239-247: isRemote, then either the read of
\* the current status or set(Pinning)
Track(t, arg) ==
  /\ Call(t)
  /\ IF isRemote(arg)
       THEN /\ IF unsafeGet(status, arg.Cid).Status = TrackerStatusPinned
                 THEN Goto(t, "unpin_call")
                 ELSE Goto(t, "Track_setRemote")
            /\ SetLoc(t, [NoLoc EXCEPT !.op = "Track", !.c = arg.Cid])
            /\ Note(arg.Cid, "R")
            /\ UNCHANGED status
       ELSE /\ status' = unsafeSet(status, arg.Cid, TrackerStatusPinning)
            /\ Goto(t, "Track_send")
            /\ SetLoc(t, [NoLoc EXCEPT !.op = "Track", !.c = arg.Cid])
            /\ UNCHANGED hist
  /\ Pending(t)
  /\ UNCHANGED <<lifecycle, consensus, cluster, pinCh, unpinCh, ipfs, healthy>>

\* mapPinTracker.Track, lines 243-244: set(Remote); return nil
TrackSetRemote(t) ==
  /\ pc[t] = "Track_setRemote"
  /\ status' = unsafeSet(status, loc[t].c, TrackerStatusRemote)
  /\ Return(t, RetVal("Track", NoInfo, NoErr))
  /\ UNCHANGED <<lifecycle, consensus, cluster, pinCh, unpinCh, ipfs, healthy, hist, nops>>

\* mapPinTracker.Track, lines 248-250: the select on pinCh
TrackSend(t) ==
  /\ pc[t] = "Track_send"
  /\ IF Len(pinCh) < PinQueueSize
       THEN /\ pinCh' = Append(pinCh, loc[t].c)
            /\ Note(loc[t].c, "T")
            /\ Return(t, RetVal("Track", NoInfo, NoErr))
       ELSE /\ Goto(t, "Track_full")
            /\ UNCHANGED <<pinCh, hist, loc, ret>>
  /\ UNCHANGED <<lifecycle, consensus, cluster, status, unpinCh, ipfs, healthy, nops>>

\* Track that records the error of a full queue but returns nil
TrackFullNil(t) ==
  /\ pc[t] = "Track_full"
  /\ status' = unsafeSetError(status, loc[t].c, ErrPinQueueFull)
  /\ Note(loc[t].c, "X")
  /\ Return(t, RetVal("Track", NoInfo, NoErr))
  /\ UNCHANGED <<lifecycle, consensus, cluster, pinCh, unpinCh, ipfs, healthy, nops>>

\* mapPinTracker.Track, lines 251-253: setError(ErrPinQueueFull); return it
TrackFull(t) ==
  /\ pc[t] = "Track_full"
  /\ status' = unsafeSetError(status, loc[t].c, ErrPinQueueFull)
  /\ Note(loc[t].c, "X")
  /\ Return(t, RetVal("Track", NoInfo, ErrPinQueueFull))
  /\ UNCHANGED <<lifecycle, consensus, cluster, pinCh, unpinCh, ipfs, healthy, nops>>

\* --------------------------------------------------------------- Untrack
\* Untrack without the set(Unpinning) of line 263
UntrackNoSet(t, c) ==
  /\ Call(t)
  /\ Goto(t, "Untrack_send")
  /\ SetLoc(t, [NoLoc EXCEPT !.op = "Untrack", !.c = c])
  /\ Pending(t)
  /\ UNCHANGED <<lifecycle, consensus, cluster, status, pinCh, unpinCh, ipfs, healthy, hist>>

\* mapPinTracker.Untrack, line 263: set(Unpinning)
Untrack(t, c) ==
  /\ Call(t)
  /\ status' = unsafeSet(status, c, TrackerStatusUnpinning)
  /\ Goto(t, "Untrack_send")
  /\ SetLoc(t, [NoLoc EXCEPT !.op = "Untrack", !.c = c])
  /\ Pending(t)
  /\ UNCHANGED <<lifecycle, consensus, cluster, pinCh, unpinCh, ipfs, healthy, hist>>

\* mapPinTracker.Untrack, lines 264-266: the select on unpinCh
UntrackSend(t) ==
  /\ pc[t] = "Untrack_send"
  /\ IF Len(unpinCh) < PinQueueSize
       THEN /\ unpinCh' = Append(unpinCh, loc[t].c)
            /\ Note(loc[t].c, "U")
            /\ Return(t, RetVal("Untrack", NoInfo, NoErr))
       ELSE /\ Goto(t, "Untrack_full")
            /\ UNCHANGED <<unpinCh, hist, loc, ret>>
  /\ UNCHANGED <<lifecycle, consensus, cluster, status, pinCh, ipfs, healthy, nops>>

\* mapPinTracker.Untrack, lines 267-269: setError(ErrUnpinQueueFull)
UntrackFull(t) ==
  /\ pc[t] = "Untrack_full"
  /\ status' = unsafeSetError(status, loc[t].c, ErrUnpinQueueFull)
  /\ Note(loc[t].c, "X")
  /\ Return(t, RetVal("Untrack", NoInfo, ErrUnpinQueueFull))
  /\ UNCHANGED <<lifecycle, consensus, cluster, pinCh, unpinCh, ipfs, healthy, nops>>

\* ------------------------------------------------------ Status, StatusAll
\* mapPinTracker.Status
Status(t, c) ==
  /\ Call(t)
  /\ Return(t, RetVal("Status", unsafeGet(status, c), NoErr))
  /\ UNCHANGED <<lifecycle, consensus, cluster, status, pinCh, unpinCh, ipfs, healthy, hist>>

\* mapPinTracker.StatusAll: the values of the map
StatusAll(t) ==
  /\ Call(t)
  /\ Return(t, [op |-> "StatusAll", info |-> NoInfo, err |-> NoErr,
                all |-> {status[c] : c \in DOMAIN status}])
  /\ UNCHANGED <<lifecycle, consensus, cluster, status, pinCh, unpinCh, ipfs, healthy, hist>>

\* ------------------------------------------------------------------ Sync
\* syncStatus that leaves a Pinning entry alone when the daemon holds the pin
syncActionKeepPinning(p, ips) ==
  IF IsPinned(ips)
    THEN CASE p.Status = TrackerStatusPinError
                -> [kind |-> "set", s |-> TrackerStatusPinned, err |-> NoErr]
           [] p.Status = TrackerStatusUnpinning
                -> IF Since(p.TS) > UnpinningTimeout
                     THEN [kind |-> "setError", s |-> "",
                           err |-> errUnpinningTimeout]
                     ELSE NoTodo
           [] p.Status = TrackerStatusUnpinned
                -> [kind |-> "setError", s |-> "", err |-> errPinned]
           [] OTHER -> NoTodo
    ELSE CASE p.Status = TrackerStatusPinned
                -> [kind |-> "setError", s |-> "", err |-> errUnpinned]
           [] p.Status = TrackerStatusPinning
                -> IF Since(p.TS) > PinningTimeout
                     THEN [kind |-> "setError", s |-> "",
                           err |-> errPinningTimeout]
                     ELSE NoTodo
           [] p.Status \in {TrackerStatusUnpinning, TrackerStatusUnpinError}
                -> [kind |-> "set", s |-> TrackerStatusUnpinned, err |-> NoErr]
           [] OTHER -> NoTodo

\* syncStatus with the age of an Unpinning entry not looked at
syncActionNoAge(p, ips) ==
  IF IsPinned(ips)
    THEN CASE p.Status \in {TrackerStatusPinning, TrackerStatusPinError}
                -> [kind |-> "set", s |-> TrackerStatusPinned, err |-> NoErr]
           [] p.Status = TrackerStatusUnpinning
                -> [kind |-> "setError", s |-> "", err |-> errUnpinningTimeout]
           [] p.Status = TrackerStatusUnpinned
                -> [kind |-> "setError", s |-> "", err |-> errPinned]
           [] OTHER -> NoTodo
    ELSE CASE p.Status = TrackerStatusPinned
                -> [kind |-> "setError", s |-> "", err |-> errUnpinned]
           [] p.Status = TrackerStatusPinning
                -> IF Since(p.TS) > PinningTimeout
                     THEN [kind |-> "setError", s |-> "",
                           err |-> errPinningTimeout]
                     ELSE NoTodo
           [] p.Status \in {TrackerStatusUnpinning, TrackerStatusUnpinError}
                -> [kind |-> "set", s |-> TrackerStatusUnpinned, err |-> NoErr]
           [] OTHER -> NoTodo

\* mapPinTracker.syncStatus, lines 363-392: what the switch decides to write
\* for the PinInfo p it has read and the daemon's answer ips
syncAction(p, ips) ==
  IF IsPinned(ips)
    THEN CASE p.Status = TrackerStatusPinned -> NoTodo
           [] p.Status \in {TrackerStatusPinning, TrackerStatusPinError}
                -> [kind |-> "set", s |-> TrackerStatusPinned, err |-> NoErr]
           [] p.Status = TrackerStatusUnpinning
                -> IF Since(p.TS) > UnpinningTimeout
                     THEN [kind |-> "setError", s |-> "",
                           err |-> errUnpinningTimeout]
                     ELSE NoTodo
           [] p.Status = TrackerStatusUnpinned
                -> [kind |-> "setError", s |-> "", err |-> errPinned]
           [] p.Status = TrackerStatusUnpinError -> NoTodo
           [] OTHER -> NoTodo
    ELSE CASE p.Status = TrackerStatusPinned
                -> [kind |-> "setError", s |-> "", err |-> errUnpinned]
           [] p.Status = TrackerStatusPinError -> NoTodo
           [] p.Status = TrackerStatusPinning
                -> IF Since(p.TS) > PinningTimeout
                     THEN [kind |-> "setError", s |-> "",
                           err |-> errPinningTimeout]
                     ELSE NoTodo
           [] p.Status \in {TrackerStatusUnpinning, TrackerStatusUnpinError}
                -> [kind |-> "set", s |-> TrackerStatusUnpinned, err |-> NoErr]
           [] p.Status = TrackerStatusUnpinned -> NoTodo
           [] OTHER -> NoTodo

\* mapPinTracker.Sync, lines 301-307: the IPFSPinLsCid RPC
Sync(t, c) ==
  /\ Call(t)
  /\ \E ok \in BOOLEAN :
       IF ok
         THEN /\ SetLoc(t, [NoLoc EXCEPT !.op = "Sync", !.c = c,
                              !.ips = IF c \in ipfs
                                        THEN IPFSPinStatusPinned
                                        ELSE IPFSPinStatusUnpinned])
              /\ Goto(t, "syncStatus_get")
              /\ UNCHANGED healthy
         ELSE /\ SetLoc(t, [NoLoc EXCEPT !.op = "Sync", !.c = c,
                              !.err = ErrIPFS])
              /\ Goto(t, "Sync_setError")
              /\ healthy' = FALSE
  /\ Pending(t)
  /\ UNCHANGED <<lifecycle, consensus, cluster, status, pinCh, unpinCh, ipfs, hist>>

\* mapPinTracker.Sync, line 308: setError(c, err)
SyncSetError(t) ==
  /\ pc[t] = "Sync_setError"
  /\ status' = unsafeSetError(status, loc[t].c, loc[t].err)
  /\ Goto(t, "Sync_get")
  /\ UNCHANGED <<lifecycle, consensus, cluster, pinCh, unpinCh, ipfs, loc, ret, healthy, hist, nops>>

\* mapPinTracker.Sync, line 309: return mpt.get(c), err
SyncGet(t) ==
  /\ pc[t] = "Sync_get"
  /\ Return(t, RetVal("Sync", unsafeGet(status, loc[t].c), loc[t].err))
  /\ UNCHANGED <<lifecycle, consensus, cluster, status, pinCh, unpinCh, ipfs, healthy, hist, nops>>

\* mapPinTracker.syncStatus, line 362 and the switch: p := mpt.get(c)
syncStatusGet(t) ==
  /\ pc[t] = "syncStatus_get"
  /\ LET p == unsafeGet(status, loc[t].c)
         todo == syncAction(p, loc[t].ips)
     IN /\ SetLoc(t, [loc[t] EXCEPT !.p = p, !.todo = todo])
        /\ Goto(t, IF todo.kind = "none" THEN "syncStatus_ret"
                                         ELSE "syncStatus_set")
  /\ UNCHANGED <<lifecycle, consensus, cluster, status, pinCh, unpinCh, ipfs, ret, healthy, hist, nops>>

\* mapPinTracker.syncStatus: the mpt.set or mpt.setError the switch chose
syncStatusSet(t) ==
  /\ pc[t] = "syncStatus_set"
  /\ status' = IF loc[t].todo.kind = "set"
                 THEN unsafeSet(status, loc[t].c, loc[t].todo.s)
                 ELSE unsafeSetError(status, loc[t].c, loc[t].todo.err)
  /\ Goto(t, "syncStatus_ret")
  /\ UNCHANGED <<lifecycle, consensus, cluster, pinCh, unpinCh, ipfs, loc, ret, healthy, hist, nops>>

\* the test of lines 352-354 without its two clauses on the error states
UpdatedOnly(pInfoOrig, pInfoNew) == pInfoOrig.Status # pInfoNew.Status

\* SyncAll, lines 352-356: whether pInfoNew goes into the returned list
Updated(pInfoOrig, pInfoNew) ==
  \/ pInfoOrig.Status # pInfoNew.Status
  \/ pInfoNew.Status = TrackerStatusUnpinError
  \/ pInfoNew.Status = TrackerStatusPinError

\* mapPinTracker.syncStatus, line 393: return mpt.get(c), to the caller of
\* Sync or into the loop of SyncAll (lines 352-356)
syncStatusRet(t) ==
  /\ pc[t] = "syncStatus_ret"
  /\ LET pInfoNew == unsafeGet(status, loc[t].c) IN
     IF loc[t].op = "SyncAll"
       THEN /\ SetLoc(t, [loc[t] EXCEPT
                           !.pInfos = IF Updated(loc[t].orig, pInfoNew)
                                        THEN @ \cup {pInfoNew} ELSE @])
            /\ Goto(t, "SyncAll_next")
            /\ UNCHANGED ret
       ELSE Return(t, RetVal("Sync", pInfoNew, NoErr))
  /\ UNCHANGED <<lifecycle, consensus, cluster, status, pinCh, unpinCh, ipfs, healthy, hist, nops>>

\* ---------------------------------------------------------------- SyncAll
\* a list of PinInfo handed to the caller
RetAll(op, all, err) == [op |-> op, info |-> NoInfo, err |-> err, all |-> all]

\* the loop of lines 332-336 with the entries on the unpin side passed over
SetErrorPinSideOnly(m, err) ==
  [k \in DOMAIN m |->
     IF m[k].Status \in {TrackerStatusUnpinning, TrackerStatusUnpinError}
       THEN m[k]
       ELSE unsafeSetError(m, k, err)[k]]

\* the loop of lines 332-336 under the mutex: unsafeSetError on every key
\* (a call writes the entry of its own key at most)
SetErrorAll(m, err) ==
  [k \in DOMAIN m |-> unsafeSetError(m, k, err)[k]]

\* mapPinTracker.SyncAll, lines 325-330: the IPFSPinLs RPC.  The client may
\* make this call after MaxOps other calls, so that SyncAll meets the maps
\* that MaxOps calls leave behind.
SyncAll(t) ==
  /\ pc[t] = "idle"
  /\ nops <= MaxOps
  /\ nops' = nops + 1
  /\ \E ok \in BOOLEAN :
       IF ok
         THEN /\ SetLoc(t, [NoLoc EXCEPT !.op = "SyncAll", !.ipsMap = ipfs])
              /\ Goto(t, "SyncAll_statusAll")
              /\ UNCHANGED healthy
         ELSE /\ SetLoc(t, [NoLoc EXCEPT !.op = "SyncAll", !.err = ErrIPFS])
              /\ Goto(t, "SyncAll_setErrors")
              /\ healthy' = FALSE
  /\ Pending(t)
  /\ UNCHANGED <<lifecycle, consensus, cluster, status, pinCh, unpinCh, ipfs, hist>>

\* mapPinTracker.SyncAll, lines 331-338: every entry is set to its error
\* and collected, in one critical section
SyncAllSetErrors(t) ==
  /\ pc[t] = "SyncAll_setErrors"
  /\ status' = SetErrorAll(status, loc[t].err)
  /\ Return(t, RetAll("SyncAll", {status'[c] : c \in DOMAIN status},
                      loc[t].err))
  /\ UNCHANGED <<lifecycle, consensus, cluster, pinCh, unpinCh, ipfs, healthy, hist, nops>>

\* mapPinTracker.SyncAll, line 341: status := mpt.StatusAll().  Of every
\* pInfoOrig the loop reads the Cid and the Status only (lines 344, 352),
\* and these are what the snapshot keeps.
SyncAllStatusAll(t) ==
  /\ pc[t] = "SyncAll_statusAll"
  /\ SetLoc(t, [loc[t] EXCEPT !.rest = {[Cid |-> c, Status |-> status[c].Status] :
                                      c \in DOMAIN status}])
  /\ Goto(t, "SyncAll_next")
  /\ UNCHANGED <<lifecycle, consensus, cluster, status, pinCh, unpinCh, ipfs, ret, healthy, hist, nops>>

\* SyncAll that takes a Cid missing from the daemon's listing for pinned
SyncAllNextMissingPinned(t) ==
  /\ pc[t] = "SyncAll_next"
  /\ IF loc[t].rest = {}
       THEN Return(t, RetAll("SyncAll", loc[t].pInfos, NoErr))
       ELSE /\ \E pInfoOrig \in loc[t].rest :
                 SetLoc(t, [loc[t] EXCEPT
                              !.rest = @ \ {pInfoOrig},
                              !.orig = pInfoOrig,
                              !.c = pInfoOrig.Cid,
                              !.ips = IPFSPinStatusPinned])
            /\ Goto(t, "syncStatus_get")
            /\ UNCHANGED ret
  /\ UNCHANGED <<lifecycle, consensus, cluster, status, pinCh, unpinCh, ipfs, healthy, hist, nops>>

\* mapPinTracker.SyncAll, lines 342-350 and 358: the next pInfoOrig of the
\* snapshot (a slice filled in the order of a map iteration) and the answer
\* of the daemon for it, or the return at the end of the loop
SyncAllNext(t) ==
  /\ pc[t] = "SyncAll_next"
  /\ IF loc[t].rest = {}
       THEN Return(t, RetAll("SyncAll", loc[t].pInfos, NoErr))
       ELSE /\ \E pInfoOrig \in loc[t].rest :
                 SetLoc(t, [loc[t] EXCEPT
                              !.rest = @ \ {pInfoOrig},
                              !.orig = pInfoOrig,
                              !.c = pInfoOrig.Cid,
                              !.ips = IF pInfoOrig.Cid \in loc[t].ipsMap
                                        THEN IPFSPinStatusPinned
                                        ELSE IPFSPinStatusUnpinned])
            /\ Goto(t, "syncStatus_get")
            /\ UNCHANGED ret
  /\ UNCHANGED <<lifecycle, consensus, cluster, status, pinCh, unpinCh, ipfs, healthy, hist, nops>>

\* --------------------------------------------------------------- Recover
\* Recover that retries whatever is not Pinned
RecoverActionEager(s) ==
  CASE s \in {TrackerStatusPinError, TrackerStatusPinning} -> "pin"
    [] s \in {TrackerStatusUnpinError, TrackerStatusUnpinning} -> "unpin"
    [] OTHER -> "return"

\* Recover that retries a failed pin by an unpin and a failed unpin by a pin
RecoverActionSwapped(s) ==
  CASE s = TrackerStatusPinError -> "unpin"
    [] s = TrackerStatusUnpinError -> "pin"
    [] OTHER -> "return"

\* mapPinTracker.Recover, lines 402-413: what Recover does for a status
RecoverAction(s) ==
  CASE s = TrackerStatusPinError -> "pin"
    [] s = TrackerStatusUnpinError -> "unpin"
    [] OTHER -> "return"

\* mapPinTracker.Recover, lines 401-413
Recover(t, c) ==
  /\ Call(t)
  /\ Note(c, "X")
  /\ LET p == unsafeGet(status, c)
         a == RecoverAction(p.Status)
     IN CASE a = "return" ->
               Return(t, RetVal("Recover", p, NoErr))
          [] a = "pin" ->
               /\ SetLoc(t, [NoLoc EXCEPT !.op = "Recover", !.c = c, !.p = p])
               /\ Goto(t, "pin_set")
               /\ Pending(t)
          [] a = "unpin" ->
               /\ SetLoc(t, [NoLoc EXCEPT !.op = "Recover", !.c = c, !.p = p])
               /\ Goto(t, "unpin_call")
               /\ Pending(t)
  /\ UNCHANGED <<lifecycle, consensus, cluster, status, pinCh, unpinCh, ipfs, healthy>>

\* mapPinTracker.Recover, line 417: return mpt.get(c), err
RecoverRet(t) ==
  /\ pc[t] = "Recover_ret"
  /\ Return(t, RetVal("Recover", unsafeGet(status, loc[t].c), loc[t].err))
  /\ UNCHANGED <<lifecycle, consensus, cluster, status, pinCh, unpinCh, ipfs, healthy, hist, nops>>

\* -------------------------------------------------------------------- Next
\* -------------------------------------------------------------- Shutdown
\* pinWorker: case <-mpt.ctx.Done(): return.  A select with both cases ready
\* takes either, so a cancelled context does not disable pinWorker above.
pinWorkerReturn ==
  /\ pc["pinWorker"] = "idle"
  /\ ctxDone
  /\ Goto("pinWorker", "returned")
  /\ UNCHANGED <<status, pinCh, unpinCh, ipfs, loc, ret, healthy, hist, nops,
                 lifecycle, consensus, cluster>>

\* unpinWorker: case <-mpt.ctx.Done(): return
unpinWorkerReturn ==
  /\ pc["unpinWorker"] = "idle"
  /\ ctxDone
  /\ Goto("unpinWorker", "returned")
  /\ UNCHANGED <<status, pinCh, unpinCh, ipfs, loc, ret, healthy, hist, nops,
                 lifecycle, consensus, cluster>>

\* mapPinTracker.Shutdown, lines 103-109: the lock and the test of
\* mpt.shutdown; "already shutdown" returns nil and unlocks at once
ShutdownEnter(k) ==
  /\ spc[k] = "idle"
  /\ shutdownLock = ""
  /\ IF shutdown
       THEN /\ spc' = [spc EXCEPT ![k] = "done"]
            /\ sret' = [sret EXCEPT ![k] = "nil"]
            /\ UNCHANGED shutdownLock
       ELSE /\ spc' = [spc EXCEPT ![k] = "cancel"]
            /\ shutdownLock' = k
            /\ UNCHANGED sret
  /\ UNCHANGED <<shutdown, ctxDone, rpcReady, cancels, closes, left, tracker,
                 consensus, cluster>>

\* mapPinTracker.Shutdown, line 112: mpt.cancel()
ShutdownCancel(k) ==
  /\ spc[k] = "cancel"
  /\ ctxDone' = TRUE
  /\ cancels' = cancels + 1
  /\ spc' = [spc EXCEPT ![k] = "close"]
  /\ UNCHANGED <<shutdown, rpcReady, shutdownLock, sret, closes, left,
                 tracker, consensus, cluster>>

\* mapPinTracker.Shutdown, line 113: close(mpt.rpcReady); the close of a
\* closed channel panics, and the deferred Unlock runs
ShutdownClose(k) ==
  /\ spc[k] = "close"
  /\ closes' = closes + 1
  /\ IF rpcReady = "closed"
       THEN /\ spc' = [spc EXCEPT ![k] = "done"]
            /\ sret' = [sret EXCEPT ![k] = "panic"]
            /\ shutdownLock' = ""
            /\ UNCHANGED rpcReady
       ELSE /\ rpcReady' = "closed"
            /\ spc' = [spc EXCEPT ![k] = "wait"]
            /\ UNCHANGED <<sret, shutdownLock>>
  /\ UNCHANGED <<shutdown, ctxDone, cancels, left, tracker, consensus, cluster>>

\* Shutdown that returns without setting mpt.shutdown
ShutdownWaitNoFlag(k) ==
  /\ spc[k] = "wait"
  /\ spc' = [spc EXCEPT ![k] = "done"]
  /\ sret' = [sret EXCEPT ![k] = "nil"]
  /\ shutdownLock' = ""
  /\ UNCHANGED <<shutdown, ctxDone, rpcReady, cancels, closes, left, tracker,
                 consensus, cluster>>

\* mapPinTracker.Shutdown, lines 114-116: mpt.wg.Wait(), which returns at
\* once since nothing ever adds to mpt.wg, then mpt.shutdown = true, return
\* nil and the deferred Unlock
ShutdownWait(k) ==
  /\ spc[k] = "wait"
  /\ shutdown' = TRUE
  /\ spc' = [spc EXCEPT ![k] = "done"]
  /\ sret' = [sret EXCEPT ![k] = "nil"]
  /\ shutdownLock' = ""
  /\ left' = [pinCh |-> pinCh, unpinCh |-> unpinCh,
              pc |-> [w \in Workers |-> pc[w]]]
  /\ UNCHANGED <<ctxDone, rpcReady, cancels, closes, tracker, consensus, cluster>>

\* the steps of the tracker, its client and the clock
NextOwn ==
  \/ Tick
  \/ pinWorker
  \/ unpinWorker
  \/ \E t \in Threads : PinSet(t)
  \/ \E t \in Threads : PinCall(t)
  \/ \E t \in Threads : PinDone(t)
  \/ \E t \in Threads : UnpinCall(t)
  \/ \E t \in Threads : UnpinDone(t)
  \/ \E t \in Clients, arg \in CidArgs : Track(t, arg)
  \/ \E t \in Clients : TrackSetRemote(t)
  \/ \E t \in Clients : TrackSend(t)
  \/ \E t \in Clients : TrackFull(t)
  \/ \E t \in Clients, c \in Cids : Untrack(t, c)
  \/ \E t \in Clients : UntrackSend(t)
  \/ \E t \in Clients : UntrackFull(t)
  \/ \E t \in Clients, c \in Cids : Status(t, c)
  \/ \E t \in Clients : StatusAll(t)
  \/ \E t \in Clients, c \in Cids : Sync(t, c)
  \/ \E t \in Clients : SyncSetError(t)
  \/ \E t \in Clients : SyncGet(t)
  \/ \E t \in Clients : syncStatusGet(t)
  \/ \E t \in Clients : syncStatusSet(t)
  \/ \E t \in Clients : syncStatusRet(t)
  \/ \E t \in Clients, c \in Cids : Recover(t, c)
  \/ \E t \in Clients : RecoverRet(t)

Next ==
  \/ NextOwn
  \/ \E c \in Cids : ExternalChange(c)

Spec == Init /\ [][Next]_vars

\* The two workers are goroutines of their own that nothing stops while the
\* tracker is not shut down, and a call of the daemon returns: a worker that
\* can take a step does take it.
WorkersFair ==
  /\ WF_vars(pinWorker)
  /\ WF_vars(unpinWorker)
  /\ \A w \in Workers :
       /\ WF_vars(PinSet(w))
       /\ WF_vars(PinCall(w))
       /\ WF_vars(PinDone(w))
       /\ WF_vars(UnpinCall(w))
       /\ WF_vars(UnpinDone(w))

SpecLive == Init /\ [][Next]_vars /\ WorkersFair

\* the tracker with callers of Shutdown: its workers may return
NextShutdown ==
  \/ NextOwn
  \/ pinWorkerReturn
  \/ unpinWorkerReturn
  \/ \E k \in Stoppers : ShutdownEnter(k)
  \/ \E k \in Stoppers : ShutdownCancel(k)
  \/ \E k \in Stoppers : ShutdownClose(k)
  \/ \E k \in Stoppers : ShutdownWait(k)

SpecShutdown == Init /\ [][NextShutdown]_vars

\* the tracker with SyncAll among the calls of its client, on a daemon
\* whose pin set changes at the tracker's request only
NextSyncAll ==
  \/ NextOwn
  \/ \E t \in Clients : SyncAll(t)
  \/ \E t \in Clients : SyncAllSetErrors(t)
  \/ \E t \in Clients : SyncAllStatusAll(t)
  \/ \E t \in Clients : SyncAllNext(t)

SpecSyncAll == Init /\ [][NextSyncAll]_vars

\* ------------------------------------------------------ Consensus.Shutdown
\* the part of the consensus state a step of cc.Shutdown leaves alone
ccFrame(k) == UNCHANGED <<tracker, lifecycle, cluster, oplog, logcall, bootstrap>>

\* Consensus.Shutdown, lines 182-188: the lock and the test of cc.shutdown
ccShutdownEnter(k) ==
  /\ ccPc[k] = "idle"
  /\ ccLock = ""
  /\ IF ccShutdown
       THEN /\ ccPc' = [ccPc EXCEPT ![k] = "done"]
            /\ ccRet' = [ccRet EXCEPT ![k] = "nil"]
            /\ UNCHANGED ccLock
       ELSE /\ ccPc' = [ccPc EXCEPT ![k] = "close"]
            /\ ccLock' = k
            /\ UNCHANGED ccRet
  /\ UNCHANGED <<ccShutdown, ccRpcReady, ccShutdownCh, ccRun, ccRaft,
                 ccSnapshots, ccErrs>>
  /\ ccFrame(k)

\* Consensus.Shutdown, line 192: close(cc.rpcReady); the close of a closed
\* channel panics, and the deferred Unlock runs
ccClose(k) ==
  /\ ccPc[k] = "close"
  /\ IF ccRpcReady = "closed"
       THEN /\ ccPc' = [ccPc EXCEPT ![k] = "done"]
            /\ ccRet' = [ccRet EXCEPT ![k] = "panic"]
            /\ ccLock' = ""
            /\ UNCHANGED ccRpcReady
       ELSE /\ ccRpcReady' = "closed"
            /\ ccPc' = [ccPc EXCEPT ![k] = "signal"]
            /\ UNCHANGED <<ccRet, ccLock>>
  /\ UNCHANGED <<ccShutdown, ccShutdownCh, ccRun, ccRaft, ccSnapshots, ccErrs>>
  /\ ccFrame(k)

\* Consensus.Shutdown, line 193: cc.shutdownCh <- struct{}{}, a channel
\* with room for one signal (line 104)
ccSignal(k) ==
  /\ ccPc[k] = "signal"
  /\ ccShutdownCh < 1
  /\ ccShutdownCh' = ccShutdownCh + 1
  /\ ccPc' = [ccPc EXCEPT ![k] = "snapshot"]
  /\ UNCHANGED <<ccShutdown, ccRpcReady, ccLock, ccRun, ccRaft, ccSnapshots,
                 ccErrs, ccRet>>
  /\ ccFrame(k)

\* Consensus.run, line 123 and the deferred calls: <-cc.shutdownCh, cancel,
\* cc.wg.Done
ccRunExit ==
  /\ ccRun = "waiting"
  /\ ccShutdownCh > 0
  /\ ccShutdownCh' = ccShutdownCh - 1
  /\ ccRun' = "exited"
  /\ UNCHANGED <<ccShutdown, ccRpcReady, ccLock, ccRaft, ccSnapshots, ccPc,
                 ccErrs, ccRet, tracker, lifecycle, cluster, oplog, logcall, bootstrap>>

\* Shutdown that does not look at the error of cc.raft.Snapshot()
ccSnapshotUnchecked(k) ==
  /\ ccPc[k] = "snapshot"
  /\ \E ok \in BOOLEAN :
       IF ok /\ ccRaft = "up"
         THEN ccSnapshots' = Append(ccSnapshots,
                                    [state |-> PinMap, index |-> Len(log)])
         ELSE UNCHANGED ccSnapshots
  /\ ccPc' = [ccPc EXCEPT ![k] = "raftShutdown"]
  /\ UNCHANGED <<ccShutdown, ccRpcReady, ccShutdownCh, ccLock, ccRun, ccRaft,
                 ccRet, ccErrs>>
  /\ ccFrame(k)

\* Consensus.Shutdown, lines 197-200: cc.raft.Snapshot(), which succeeds or
\* fails; a raft that is down takes no snapshot
ccSnapshot(k) ==
  /\ ccPc[k] = "snapshot"
  /\ \E ok \in BOOLEAN :
       IF ok /\ ccRaft = "up"
         THEN /\ ccSnapshots' = Append(ccSnapshots,
                                       [state |-> PinMap, index |-> Len(log)])
              /\ UNCHANGED ccErrs
         ELSE /\ ccErrs' = [ccErrs EXCEPT ![k] = @ \cup {"snapshot"}]
              /\ UNCHANGED ccSnapshots
  /\ ccPc' = [ccPc EXCEPT ![k] = "raftShutdown"]
  /\ UNCHANGED <<ccShutdown, ccRpcReady, ccShutdownCh, ccLock, ccRun, ccRaft,
                 ccRet>>
  /\ ccFrame(k)

\* Consensus.Shutdown, lines 201-204: cc.raft.Shutdown(), which succeeds or
\* fails
ccRaftShutdown(k) ==
  /\ ccPc[k] = "raftShutdown"
  /\ \E ok \in BOOLEAN :
       IF ok
         THEN /\ ccRaft' = "down"
              /\ UNCHANGED ccErrs
         ELSE /\ ccErrs' = [ccErrs EXCEPT ![k] = @ \cup {"shutdown"}]
              /\ UNCHANGED ccRaft
  /\ ccPc' = [ccPc EXCEPT ![k] = "finish"]
  /\ UNCHANGED <<ccShutdown, ccRpcReady, ccShutdownCh, ccLock, ccRun,
                 ccSnapshots, ccRet>>
  /\ ccFrame(k)

\* Consensus.Shutdown, lines 206-212: with errMsgs the error is returned
\* and cc.shutdown stays false; without, cc.wg.Wait() for the goroutine of
\* run(), cc.shutdown = true, return nil; the deferred Unlock in both cases
ccFinish(k) ==
  /\ ccPc[k] = "finish"
  /\ IF ccErrs[k] # {}
       THEN /\ ccRet' = [ccRet EXCEPT ![k] = "error"]
            /\ UNCHANGED ccShutdown
       ELSE /\ ccRun = "exited"
            /\ ccShutdown' = TRUE
            /\ ccRet' = [ccRet EXCEPT ![k] = "nil"]
  /\ ccPc' = [ccPc EXCEPT ![k] = "done"]
  /\ ccLock' = ""
  /\ UNCHANGED <<ccRpcReady, ccShutdownCh, ccRun, ccRaft, ccSnapshots, ccErrs>>
  /\ ccFrame(k)

\* what a step of SetClient or of finishBootstrap leaves alone
ccShutdownState ==
  <<ccShutdown, ccRpcReady, ccShutdownCh, ccLock, ccRun, ccRaft, ccSnapshots,
    ccPc, ccErrs, ccRet>>

\* Consensus.SetClient, lines 217-218: cc.rpcClient = c
SetClient ==
  /\ ccSetPc = "idle"
  /\ ccClient' = TRUE
  /\ ccSetPc' = "send"
  /\ UNCHANGED <<ccSync, ccReadySent>>
  /\ UNCHANGED <<ccRpcBuf, ccReadyCh, ccBoot, ccShutdownState, tracker,
                 lifecycle, cluster, oplog, logcall>>

\* Consensus.SetClient, line 219: cc.rpcReady <- struct{}{}, a channel with
\* room for one signal (line 105); the send on a closed channel panics
SetClientSend ==
  /\ ccSetPc = "send"
  /\ IF ccRpcReady = "closed"
       THEN /\ ccSetPc' = "panic"
            /\ UNCHANGED ccRpcBuf
       ELSE /\ ccRpcBuf < 1
            /\ ccRpcBuf' = ccRpcBuf + 1
            /\ ccSetPc' = "done"
  /\ UNCHANGED <<ccSync, ccReadySent>>
  /\ UNCHANGED <<ccClient, ccReadyCh, ccBoot, ccShutdownState, tracker,
                 lifecycle, cluster, oplog, logcall>>

\* what WaitForSync returns: nil ("ok"), the error of raft.WaitForLeader or
\* that of raft.WaitForUpdates; raft.WaitForLeader returns nil once there is
\* a leader and an error when LeaderTimeout has passed without one
SyncResultsNow ==
  IF leader = NoLeader THEN {"leaderErr"} ELSE {"ok", "updatesErr"}

\* finishBootstrap that goes on whatever WaitForSync returned
finishBootstrapSyncAnyway ==
  /\ ccBoot = "sync"
  /\ \E r \in SyncResultsNow : ccSync' = r
  /\ ccBoot' = "check"
  /\ UNCHANGED ccReadySent
  /\ UNCHANGED <<ccClient, ccRpcBuf, ccReadyCh, ccSetPc, ccShutdownState,
                 tracker, lifecycle, cluster, oplog, logcall>>

\* Consensus.WaitForSync, lines 128-140, and finishBootstrap, lines
\* 144-147: cc.WaitForSync() returns nil when a leader was found and the
\* state is up to date, and finishBootstrap returns on its error
finishBootstrapSync ==
  /\ ccBoot = "sync"
  /\ \E r \in SyncResultsNow :
       /\ ccSync' = r
       /\ ccBoot' = IF r = "ok" THEN "check" ELSE "returned"
  /\ UNCHANGED ccReadySent
  /\ UNCHANGED <<ccClient, ccRpcBuf, ccReadyCh, ccSetPc, ccShutdownState,
                 tracker, lifecycle, cluster, oplog, logcall>>

\* Consensus.finishBootstrap, line 151: if cc.rpcClient == nil
finishBootstrapCheck ==
  /\ ccBoot = "check"
  /\ ccBoot' = IF ccClient THEN "state" ELSE "wait"
  /\ UNCHANGED <<ccSync, ccReadySent>>
  /\ UNCHANGED <<ccClient, ccRpcBuf, ccReadyCh, ccSetPc, ccShutdownState,
                 tracker, lifecycle, cluster, oplog, logcall>>

\* Consensus.finishBootstrap, lines 152-156: the select on cc.ctx.Done(),
\* which the goroutine of run() cancels when it exits, and on cc.rpcReady,
\* which yields a waiting signal or, once closed, the zero value
finishBootstrapWait ==
  /\ ccBoot = "wait"
  /\ \/ /\ ccRun = "exited"
        /\ ccBoot' = "returned"
        /\ UNCHANGED ccRpcBuf
     \/ /\ ccRpcBuf > 0
        /\ ccRpcBuf' = ccRpcBuf - 1
        /\ ccBoot' = "state"
     \/ /\ ccRpcBuf = 0
        /\ ccRpcReady = "closed"
        /\ ccBoot' = "state"
        /\ UNCHANGED ccRpcBuf
  /\ UNCHANGED <<ccSync, ccReadySent>>
  /\ UNCHANGED <<ccClient, ccReadyCh, ccSetPc, ccShutdownState, tracker,
                 lifecycle, cluster, oplog, logcall>>

\* Consensus.finishBootstrap, lines 159-175: cc.State(), which succeeds or
\* fails; on success cc.rpcClient.Go(...), a nil dereference without a
\* client; then cc.readyCh <- struct{}{}
finishBootstrapReady ==
  /\ ccBoot = "state"
  /\ \E ok \in BOOLEAN :
       IF ok /\ ~ccClient
         THEN /\ ccBoot' = "panic"
              /\ UNCHANGED <<ccReadyCh, ccReadySent>>
         ELSE /\ ccReadyCh < 1
              /\ ccReadyCh' = ccReadyCh + 1
              /\ ccReadySent' = ccReadySent + 1
              /\ ccBoot' = "done"
  /\ UNCHANGED ccSync
  /\ UNCHANGED <<ccClient, ccRpcBuf, ccSetPc, ccShutdownState, tracker,
                 lifecycle, cluster, oplog, logcall>>


\* ----------------------------------------------------------------- mapState
\* the place of every peer in a list of peers
PeerOrder == [p \in Peers |-> IF p = "peerA" THEN 1 ELSE 2]

\* a set of peers as the list of their strings
RECURSIVE SetToSeq(_)
SetToSeq(S) ==
  IF S = {} THEN << >>
  ELSE LET x == CHOOSE y \in S : \A z \in S : PeerOrder[y] <= PeerOrder[z]
       IN  <<x>> \o SetToSeq(S \ {x})

\* api.CidArg.ToSerial: the Cid as its string, the peers as the list of
\* their strings
ToSerial(c) ==
  [Cid |-> c.Cid, Allocations |-> SetToSeq(c.Allocations),
   Everywhere |-> c.Everywhere]

\* api.CidArgSerial.ToCidArg
ToCidArg(cs) ==
  [Cid |-> cs.Cid,
   Allocations |-> {cs.Allocations[i] : i \in 1..Len(cs.Allocations)},
   Everywhere |-> cs.Everywhere]

\* api.CidArg{}: no Cid, no allocations
EmptyCidArg == [Cid |-> "", Allocations |-> {}, Everywhere |-> FALSE]
\* api.CidArgCid(c): the argument of an unpin
CidArgCid(c) == [Cid |-> c, Allocations |-> {}, Everywhere |-> FALSE]

\* mapState.Add that keeps the PinSpec a Cid already has
AddIfAbsent(st, c) ==
  IF c.Cid \in DOMAIN st THEN st ELSE MapPut(st, c.Cid, ToSerial(c))

\* mapState.Add: st.PinMap[c.Cid.String()] = c.ToSerial()
Add(st, c) == MapPut(st, c.Cid, ToSerial(c))

\* mapState.Rm that deletes every Cid but the one it is given
RmOthers(st, c) == [x \in DOMAIN st \cap {c} |-> st[x]]

\* mapState.Rm that deletes nothing
RmKeeps(st, c) == st

\* mapState.Rm: delete(st.PinMap, c.String())
Rm(st, c) == MapDel(st, c)

\* mapState.Get
Get(st, c) == IF c \in DOMAIN st THEN ToCidArg(st[c]) ELSE EmptyCidArg

\* mapState.Has
Has(st, c) == c \in DOMAIN st

\* mapState.List, as the collection of its elements: the order of a range
\* over a Go map is not fixed
List(st) == [cs \in {st[k] : k \in DOMAIN st} |->
               Cardinality({k \in DOMAIN st : st[k] = cs})]

\* ------------------------------------------------------------------- LogOp
LogOpPin == "LogOpPin"
LogOpUnpin == "LogOpUnpin"
LogOpAddPeer == "LogOpAddPeer"
LogOpRmPeer == "LogOpRmPeer"

\* Consensus.op: the operation for an api.CidArg or for the address of a
\* peer
op(argi, t) ==
  IF t \in {LogOpPin, LogOpUnpin}
    THEN [Type |-> t, Cid |-> ToSerial(argi), Peer |-> ""]
    ELSE [Type |-> t, Cid |-> ToSerial(EmptyCidArg), Peer |-> argi]

\* the operations a log can hold
LogOps ==
  {op(c, LogOpPin) : c \in CidArgs}
    \cup {op(CidArgCid(c), LogOpUnpin) : c \in Cids}
    \cup {op(p, t) : p \in Peers \cup {NewPeer},
                      t \in {LogOpAddPeer, LogOpRmPeer}}

\* LogOp.ApplyTo: the applier of the state machine, switching on the kind
\* of the operation; a Pin adds the PinSpec, an Unpin removes the Cid, the
\* operations on peers leave the pins alone
ApplyTo(st, o) ==
  CASE o.Type = LogOpPin -> Add(st, ToCidArg(o.Cid))
    [] o.Type = LogOpUnpin -> Rm(st, ToCidArg(o.Cid).Cid)
    [] OTHER -> st

\* an operation is committed: it is appended to the log and applied to the
\* state
ApplyOp(o) ==
  /\ Len(log) < MaxLog
  /\ log' = Append(log, o)
  /\ PinMap' = ApplyTo(PinMap, o)
  /\ UNCHANGED <<tracker, lifecycle, cluster, ccShutdownState, bootstrap, logcall>>

\* the state under any sequence of committed operations
NextState == \E o \in LogOps : ApplyOp(o)

SpecState == Init /\ [][NextState]_vars

\* ------------------------------------------- the log operations of Consensus
ErrNoLeader == "timed out waiting for a leader"
ErrCommit == "the operation did not make it to the log"
ErrRPC == "rpc call failed"
ErrTransport == "raft could not change its peers"
ErrBadAddr == "invalid peer multiaddress"

\* an address that util.MultiaddrSplit does not take
BadAddr == "/ip4/127.0.0.1"

\* the calls the caller makes
PinArgs ==
  {c \in CidArgs : ~c.Everywhere /\ (c.Cid = "c2" => c.Allocations = {"peerA"})}

\* arg is the api.CidArg of LogPin and LogUnpin, peer the address or the
\* id of LogAddPeer and LogRmPeer
LogCalls ==
  {[method |-> "LogPin", arg |-> c, peer |-> ""] : c \in PinArgs}
    \cup {[method |-> "LogUnpin", arg |-> CidArgCid(c), peer |-> ""] :
            c \in Cids}
    \cup {[method |-> "LogAddPeer", arg |-> EmptyCidArg, peer |-> a] :
            a \in {NewPeer, BadAddr}}
    \cup {[method |-> "LogRmPeer", arg |-> EmptyCidArg, peer |-> "peerB"]}

IsCidCall(m) == m \in {"LogPin", "LogUnpin"}

\* the LogOpType every method commits
OpType(m) ==
  CASE m = "LogPin" -> LogOpPin
    [] m = "LogUnpin" -> LogOpUnpin
    [] m = "LogAddPeer" -> LogOpAddPeer
    [] m = "LogRmPeer" -> LogOpRmPeer

\* the RPC method every method redirects to
RpcOp(m) == "Consensus" \o m

\* the operation a call commits
CallOp(f) ==
  op(IF IsCidCall(f.method) THEN f.arg ELSE f.peer, OpType(f.method))

\* a call as it starts: i = 0, finalErr = nil; tries and slept are the
\* history of its failed attempts, known is the leader raft last told this
\* attempt of, commits the number of its commits and lastCommit the attempt
\* of the last, log0 and rpc0 the lengths of log and rpcs when it started
NewFrame(m, a, p) ==
  [method |-> m, arg |-> a, peer |-> p, i |-> 0, finalErr |-> NoErr, leader |-> NoLeader,
   known |-> NoLeader, pc |-> "leader", result |-> NoErr, tries |-> << >>,
   slept |-> << >>, commits |-> 0, lastCommit |-> -1, log0 |-> Len(log),
   rpc0 |-> Len(rpcs)]

Top == lstack[Len(lstack)]
SetTop(f) == [lstack EXCEPT ![Len(lstack)] = f]

\* a failed attempt: finalErr = err, a time.Sleep or none, continue; after
\* the last attempt the call returns finalErr
Fail(f, err, kind, sleeps) ==
  LET g == [f EXCEPT !.finalErr = err, !.i = @ + 1,
                     !.tries = Append(@, [kind |-> kind, err |-> err]),
                     !.slept = Append(@, sleeps)]
  IN  IF g.i < CommitRetries
        THEN [g EXCEPT !.pc = "leader"]
        ELSE [g EXCEPT !.pc = "ret", !.result = err]

\* a return out of the loop
Leave(f, err) == [f EXCEPT !.pc = "ret", !.result = err]

logFrame == UNCHANGED <<tracker, lifecycle, cluster, ccShutdownState, bootstrap>>

\* the leader of raft changes: it is lost, or a peer is elected
Election ==
  /\ elections < MaxElections
  /\ elections' = elections + 1
  /\ \E l \in (Peers \cup {NoLeader}) \ {leader} : leader' = l
  /\ UNCHANGED <<lstack, lret, lcalls, rpcs, raftPeers, oplog>>
  /\ logFrame

\* LogPin, LogUnpin, LogAddPeer, LogRmPeer: the call starts
LogCall(c) ==
  /\ lstack = << >>
  /\ lcalls < MaxCalls
  /\ lcalls' = lcalls + 1
  /\ lstack' = <<NewFrame(c.method, c.arg, c.peer)>>
  /\ lret' = "none"
  /\ UNCHANGED <<leader, elections, rpcs, raftPeers, oplog>>
  /\ logFrame

\* redirectToLeader, line 247: leader, err := cc.Leader()
redirectLeader ==
  /\ lstack # << >>
  /\ Top.pc = "leader"
  /\ lstack' = SetTop([Top EXCEPT !.leader = leader, !.known = leader,
                                  !.pc = IF leader = NoLeader THEN "wait"
                                         ELSE "route"])
  /\ UNCHANGED <<leader, elections, lret, lcalls, rpcs, raftPeers, oplog>>
  /\ logFrame

\* redirectToLeader that goes on after WaitForLeader has failed
redirectWaitIgnoresError ==
  /\ lstack # << >>
  /\ Top.pc = "wait"
  /\ lstack' = SetTop([Top EXCEPT !.known = leader, !.pc = "route"])
  /\ UNCHANGED <<leader, elections, lret, lcalls, rpcs, raftPeers, oplog>>
  /\ logFrame

\* redirectToLeader, lines 248-255: cc.raft.WaitForLeader(rctx) returns nil
\* once there is a leader and the error of the context when LeaderTimeout
\* has passed without one; the variable leader keeps what Leader() gave
redirectWait ==
  /\ lstack # << >>
  /\ Top.pc = "wait"
  /\ lstack' = SetTop(IF leader = NoLeader
                        THEN Fail(Top, ErrNoLeader, "timeout", FALSE)
                        ELSE [Top EXCEPT !.known = leader, !.pc = "route"])
  /\ UNCHANGED <<leader, elections, lret, lcalls, rpcs, raftPeers, oplog>>
  /\ logFrame

\* redirectToLeader, lines 256-266: no redirection when leader is the id of
\* the host; else cc.rpcClient.Call(leader, "Cluster", method, arg) with
\* carg.ToSerial(), the address or the id, which the local server answers
\* when leader is the zero peer.ID: it runs the method of the RPC API
\* (ConsensusLogPin on in.ToCidArg() and the like), and so the same log
\* operation, on this peer
redirectCall ==
  /\ lstack # << >>
  /\ Top.pc = "route"
  /\ IF Top.leader = Self
       THEN /\ lstack' = SetTop(IF Top.method = "LogAddPeer" /\ Top.peer = BadAddr
                                  THEN Leave(Top, ErrBadAddr)
                                  ELSE [Top EXCEPT !.pc = "commit"])
            /\ UNCHANGED rpcs
       ELSE /\ rpcs' = Append(rpcs, [dest |-> Top.leader,
                                     method |-> RpcOp(Top.method),
                                     arg |-> ToSerial(Top.arg),
                                     peer |-> Top.peer])
            /\ lstack' =
                 IF Top.leader = NoLeader
                   THEN Append(SetTop([Top EXCEPT !.pc = "rpc"]),
                               [NewFrame(Top.method,
                                         ToCidArg(ToSerial(Top.arg)),
                                         Top.peer)
                                  EXCEPT !.rpc0 = Len(rpcs) + 1])
                   ELSE SetTop([Top EXCEPT !.pc = "rpc"])
  /\ UNCHANGED <<leader, elections, lret, lcalls, raftPeers, oplog>>
  /\ logFrame

\* the answer of a remote peer to the RPC: nil or an error
redirectReply ==
  /\ lstack # << >>
  /\ Top.pc = "rpc"
  /\ \E ok \in BOOLEAN :
       lstack' = SetTop(IF ok THEN Leave(Top, NoErr)
                        ELSE Fail(Top, ErrRPC, "rpc", FALSE))
  /\ UNCHANGED <<leader, elections, lret, lcalls, rpcs, raftPeers, oplog>>
  /\ logFrame

\* the log operation takes its failed commit for one that did not reach
\* the log, and returns nil
CommitOpForgiving ==
  /\ lstack # << >>
  /\ Top.pc = "commit"
  /\ \E ok \in BOOLEAN :
       LET o == CallOp(Top)
           f == [Top EXCEPT !.commits = @ + 1, !.lastCommit = Top.i]
       IN  IF ok /\ leader = Self
             THEN /\ log' = Append(log, o)
                  /\ PinMap' = ApplyTo(PinMap, o)
                  /\ lstack' = SetTop(IF IsCidCall(Top.method)
                                        THEN Leave(f, NoErr)
                                        ELSE [f EXCEPT !.pc = "transport"])
             ELSE /\ lstack' = SetTop(Leave(Top, NoErr))
                  /\ UNCHANGED oplog
  /\ UNCHANGED <<leader, elections, lret, lcalls, rpcs, raftPeers>>
  /\ logFrame

\* LogAddPeer and LogRmPeer that change the peers of raft whether or not
\* the operation was committed
CommitOpThenPeers ==
  /\ lstack # << >>
  /\ Top.pc = "commit"
  /\ \E ok \in BOOLEAN :
       LET o == CallOp(Top)
           f == [Top EXCEPT !.commits = @ + 1, !.lastCommit = Top.i]
       IN  IF ok /\ leader = Self
             THEN /\ log' = Append(log, o)
                  /\ PinMap' = ApplyTo(PinMap, o)
                  /\ lstack' = SetTop(IF IsCidCall(Top.method)
                                        THEN Leave(f, NoErr)
                                        ELSE [f EXCEPT !.pc = "transport"])
             ELSE /\ lstack' = SetTop(IF IsCidCall(Top.method)
                                        THEN Fail(Top, ErrCommit, "commit", TRUE)
                                        ELSE [Top EXCEPT !.pc = "transport"])
                  /\ UNCHANGED oplog
  /\ UNCHANGED <<leader, elections, lret, lcalls, rpcs, raftPeers>>
  /\ logFrame

\* logOpCid, lines 286-295, LogAddPeer, lines 344-351, LogRmPeer, lines
\* 390-396: cc.consensus.CommitOp(op).  Raft takes the operation from its
\* leader only; when it returns without error the operation is in the log
\* and the local state machine has applied it.  After a failure logOpCid
\* and LogAddPeer sleep 200 ms, LogRmPeer does not.
CommitOp ==
  /\ lstack # << >>
  /\ Top.pc = "commit"
  /\ \E ok \in BOOLEAN :
       LET o == CallOp(Top)
           f == [Top EXCEPT !.commits = @ + 1, !.lastCommit = Top.i]
       IN  IF ok /\ leader = Self
             THEN /\ log' = Append(log, o)
                  /\ PinMap' = ApplyTo(PinMap, o)
                  /\ lstack' = SetTop(IF IsCidCall(Top.method)
                                        THEN Leave(f, NoErr)
                                        ELSE [f EXCEPT !.pc = "transport"])
             ELSE /\ lstack' = SetTop(Fail(Top, ErrCommit, "commit",
                                           Top.method # "LogRmPeer"))
                  /\ UNCHANGED oplog
  /\ UNCHANGED <<leader, elections, lret, lcalls, rpcs, raftPeers>>
  /\ logFrame

\* LogAddPeer, lines 352-358, LogRmPeer, lines 397-404: cc.raft.AddPeer or
\* cc.raft.RemovePeer, which succeeds or fails; after a failure LogRmPeer
\* sleeps 200 ms, LogAddPeer does not
raftChangePeers ==
  /\ lstack # << >>
  /\ Top.pc = "transport"
  /\ \E ok \in BOOLEAN :
       IF ok
         THEN /\ raftPeers' = IF Top.method = "LogAddPeer"
                                THEN raftPeers \cup {Top.peer}
                                ELSE raftPeers \ {Top.peer}
              /\ lstack' = SetTop(Leave(Top, NoErr))
         ELSE /\ lstack' = SetTop(Fail(Top, ErrTransport, "transport",
                                       Top.method = "LogRmPeer"))
              /\ UNCHANGED raftPeers
  /\ UNCHANGED <<leader, elections, lret, lcalls, rpcs, oplog>>
  /\ logFrame

\* the call returns: to the caller, or to the redirectToLeader whose RPC
\* the local server answered with it, which returns true and the error
logReturn ==
  /\ lstack # << >>
  /\ Top.pc = "ret"
  /\ IF Len(lstack) = 1
       THEN /\ lret' = Top.result
            /\ lstack' = << >>
       ELSE LET below == lstack[Len(lstack) - 1]
                rest == SubSeq(lstack, 1, Len(lstack) - 2)
            IN  /\ lstack' = Append(rest,
                                    IF Top.result = NoErr
                                      THEN Leave(below, NoErr)
                                      ELSE Fail(below, Top.result, "rpc",
                                                FALSE))
                /\ UNCHANGED lret
  /\ UNCHANGED <<leader, elections, lcalls, rpcs, raftPeers, oplog>>
  /\ logFrame

\* an operation that another peer has committed as the leader reaches the
\* local state machine
RemoteApply(o) ==
  /\ leader \notin {Self, NoLeader}
  /\ ApplyOp(o)

\* the operations other peers commit
RemoteOps ==
  {op(CidArgCid("c1"), LogOpUnpin),
   op([Cid |-> "c1", Allocations |-> {"peerB"}, Everywhere |-> FALSE],
      LogOpPin)}

\* the Consensus component with a caller of its log operations
NextLog ==
  \/ Election
  \/ \E c \in LogCalls : LogCall(c)
  \/ redirectLeader
  \/ redirectWait
  \/ redirectCall
  \/ redirectReply
  \/ CommitOp
  \/ raftChangePeers
  \/ logReturn
  \/ \E o \in RemoteOps : RemoteApply(o)

SpecLog == Init /\ [][NextLog]_vars

\* the Consensus component, the caller of SetClient and the callers of
\* Shutdown
\* Consensus.Ready, lines 224-226: a reader of the channel takes the signal
ReadyReceive ==
  /\ ccReadyCh > 0
  /\ ccReadyCh' = ccReadyCh - 1
  /\ UNCHANGED <<ccClient, ccRpcBuf, ccBoot, ccSetPc, ccSync, ccReadySent,
                 ccShutdownState, tracker, lifecycle, cluster, oplog, logcall>>

NextConsensus ==
  \/ Election
  \/ ReadyReceive
  \/ SetClient
  \/ SetClientSend
  \/ finishBootstrapSync
  \/ finishBootstrapCheck
  \/ finishBootstrapWait
  \/ finishBootstrapReady
  \/ \E k \in Stoppers : ccShutdownEnter(k)
  \/ \E k \in Stoppers : ccClose(k)
  \/ \E k \in Stoppers : ccSignal(k)
  \/ ccRunExit
  \/ \E k \in Stoppers : ccSnapshot(k)
  \/ \E k \in Stoppers : ccRaftShutdown(k)
  \/ \E k \in Stoppers : ccFinish(k)

SpecConsensus == Init /\ [][NextConsensus]_vars

\* -------------------------------------------------------------- peerManager
\* the multiaddresses given to addPeer, as the peer ID and the transport
\* address they split into: a second address of a peer of the cluster, two
\* of a new peer, and one that multiaddrSplit does not take
PmAddrs ==
  {[ID |-> "peerB", Addr |-> "addr2"],
   [ID |-> NewPeer, Addr |-> "addr1"],
   [ID |-> NewPeer, Addr |-> "addr2"],
   [ID |-> "", Addr |-> BadAddr]}

\* the peers given to rmPeer
PmPeers == Peers \cup {NewPeer}

\* pm.cluster.config.path
ConfigPath == "service.json"

\* what a call did to the Peerstore, the Config or the Consensus component
Effect(k, kind, p) == [by |-> k, kind |-> kind, peer |-> p]

PmGoto(k, l) == pmPc' = [pmPc EXCEPT ![k].pc = l]
PmReturn(k, err) == pmPc' = [pmPc EXCEPT ![k].pc = "done", ![k].err = err]

\* a step of the peer manager leaves the rest alone
pmFrame == UNCHANGED <<tracker, lifecycle, consensus, allocCalls>>

\* addPeer, lines 30-35: multiaddrSplit(addr) and the return of its error
addPeer(k, addr) ==
  /\ pmPc[k].pc \in {"idle", "done"}
  /\ pmCalls < MaxPmCalls
  /\ pmCalls' = pmCalls + 1
  /\ pmPc' = [pmPc EXCEPT ![k] =
                IF addr.Addr = BadAddr
                  THEN [op |-> "addPeer", pc |-> "done", addr |-> addr,
                        peer |-> addr.ID, err |-> ErrBadAddr]
                  ELSE [op |-> "addPeer", pc |-> "check", addr |-> addr,
                        peer |-> addr.ID, err |-> NoErr]]
  /\ UNCHANGED <<peerSet, peerstore, clusterPeers, savedPeers, pmEffects,
                 selfPc, selfErr, raftDb>>
  /\ pmFrame

\* addPeer that records the peer whether or not it is in the peer set
addPeerCheckAlways(k) ==
  /\ pmPc[k].op = "addPeer"
  /\ pmPc[k].pc = "check"
  /\ PmGoto(k, "record")
  /\ UNCHANGED <<peerSet, peerstore, clusterPeers, savedPeers, pmCalls,
                 pmEffects, selfPc, selfErr, raftDb>>
  /\ pmFrame

\* addPeer, lines 37-44: the test of pm.peerSet under the read lock and the
\* return for a peer that is in it
addPeerCheck(k) ==
  /\ pmPc[k].op = "addPeer"
  /\ pmPc[k].pc = "check"
  /\ IF pmPc[k].peer \in peerSet
       THEN PmReturn(k, NoErr)
       ELSE PmGoto(k, "record")
  /\ UNCHANGED <<peerSet, peerstore, clusterPeers, savedPeers, pmCalls,
                 pmEffects, selfPc, selfErr, raftDb>>
  /\ pmFrame

\* addPeer, lines 46-48: pm.peerSet[peerID] = struct{}{} under the lock
addPeerRecord(k) ==
  /\ pmPc[k].op = "addPeer"
  /\ pmPc[k].pc = "record"
  /\ peerSet' = peerSet \cup {pmPc[k].peer}
  /\ PmGoto(k, "peerstore")
  /\ UNCHANGED <<peerstore, clusterPeers, savedPeers, pmCalls, pmEffects,
                 selfPc, selfErr, raftDb>>
  /\ pmFrame

\* addPeer, line 49: Peerstore().AddAddr(peerID, decapAddr, PermanentAddrTTL)
addPeerStore(k) ==
  /\ pmPc[k].op = "addPeer"
  /\ pmPc[k].pc = "peerstore"
  /\ peerstore' =
       MapPut(peerstore, pmPc[k].peer,
              (IF pmPc[k].peer \in DOMAIN peerstore
                 THEN peerstore[pmPc[k].peer] ELSE {})
                \cup {pmPc[k].addr.Addr})
  /\ pmEffects' = Append(pmEffects, Effect(k, "AddAddr", pmPc[k].peer))
  /\ PmGoto(k, "config")
  /\ UNCHANGED <<peerSet, clusterPeers, savedPeers, pmCalls, selfPc, selfErr,
                 raftDb>>
  /\ pmFrame

\* addPeer, line 50: config.addPeer(addr), which appends the address to the
\* list of peers of the Config
addPeerConfig(k) ==
  /\ pmPc[k].op = "addPeer"
  /\ pmPc[k].pc = "config"
  /\ clusterPeers' = Append(clusterPeers, pmPc[k].addr)
  /\ pmEffects' = Append(pmEffects, Effect(k, "config.addPeer", pmPc[k].peer))
  /\ PmGoto(k, "consensus")
  /\ UNCHANGED <<peerSet, peerstore, savedPeers, pmCalls, selfPc, selfErr,
                 raftDb>>
  /\ pmFrame

\* addPeer, lines 51-53: consensus.AddPeer(peerID)
addPeerNotify(k) ==
  /\ pmPc[k].op = "addPeer"
  /\ pmPc[k].pc = "consensus"
  /\ pmEffects' = Append(pmEffects,
                         Effect(k, "consensus.AddPeer", pmPc[k].peer))
  /\ PmGoto(k, "save")
  /\ UNCHANGED <<peerSet, peerstore, clusterPeers, savedPeers, pmCalls,
                 selfPc, selfErr, raftDb>>
  /\ pmFrame

\* addPeer, lines 54-60: with a path, config.Save(path), which writes the
\* Config or fails; the error is logged and nil is returned
addPeerSave(k) ==
  /\ pmPc[k].op = "addPeer"
  /\ pmPc[k].pc = "save"
  /\ IF ConfigPath # ""
       THEN /\ \E ok \in BOOLEAN :
                 savedPeers' = IF ok THEN clusterPeers ELSE savedPeers
            /\ pmEffects' = Append(pmEffects,
                                   Effect(k, "config.Save", pmPc[k].peer))
       ELSE UNCHANGED <<savedPeers, pmEffects>>
  /\ PmReturn(k, NoErr)
  /\ UNCHANGED <<peerSet, peerstore, clusterPeers, pmCalls, selfPc, selfErr,
                 raftDb>>
  /\ pmFrame

\* rmPeer, lines 64-70: the test of pm.peerSet under the read lock and the
\* return for a peer that is not in it.  The local peer is removed by one
\* call at most.
rmPeer(k, p) ==
  /\ pmPc[k].pc \in {"idle", "done"}
  /\ pmCalls < MaxPmCalls
  /\ p = Self =>
       /\ selfPc = "none"
       /\ \A j \in PmCallers :
            ~(pmPc[j].op = "rmPeer" /\ pmPc[j].peer = Self
                /\ pmPc[j].pc # "done")
  /\ pmCalls' = pmCalls + 1
  /\ pmPc' = [pmPc EXCEPT ![k] =
                [op |-> "rmPeer",
                 pc |-> IF p \in peerSet THEN "delete" ELSE "done",
                 addr |-> NoAddr, peer |-> p, err |-> NoErr]]
  /\ UNCHANGED <<peerSet, peerstore, clusterPeers, savedPeers, pmEffects,
                 selfPc, selfErr, raftDb>>
  /\ pmFrame

\* rmPeer, lines 71-73: delete(pm.peerSet, p) under the lock
rmPeerDelete(k) ==
  /\ pmPc[k].op = "rmPeer"
  /\ pmPc[k].pc = "delete"
  /\ peerSet' = peerSet \ {pmPc[k].peer}
  /\ PmGoto(k, "clear")
  /\ UNCHANGED <<peerstore, clusterPeers, savedPeers, pmCalls, pmEffects,
                 selfPc, selfErr, raftDb>>
  /\ pmFrame

\* rmPeer, lines 74-76: Peerstore().ClearAddrs(p), config.rmPeer(p), which
\* takes the addresses of p out of the list of the Config, and
\* consensus.RemovePeer(p)
rmPeerClear(k) ==
  /\ pmPc[k].op = "rmPeer"
  /\ pmPc[k].pc = "clear"
  /\ peerstore' = MapDel(peerstore, pmPc[k].peer)
  /\ clusterPeers' = SelectSeq(clusterPeers,
                               LAMBDA a : a.ID # pmPc[k].peer)
  /\ pmEffects' = Append(pmEffects,
                         Effect(k, "consensus.RemovePeer", pmPc[k].peer))
  /\ PmGoto(k, IF pmPc[k].peer = Self THEN "self" ELSE "save")
  /\ UNCHANGED <<peerSet, savedPeers, pmCalls, selfPc, selfErr, raftDb>>
  /\ pmFrame

\* rmPeer, lines 79-89: the peer removed is the local one; config.emptyPeers()
\* and the deferred start of the goroutine that shuts the peer down
rmPeerSelf(k) ==
  /\ pmPc[k].op = "rmPeer"
  /\ pmPc[k].pc = "self"
  /\ clusterPeers' = << >>
  /\ PmGoto(k, "save")
  /\ UNCHANGED <<peerSet, peerstore, savedPeers, pmCalls, pmEffects, selfPc,
                 selfErr, raftDb>>
  /\ pmFrame

\* rmPeer, lines 91-95: with a path, config.Save(path), whose error is
\* dropped; return nil, and the deferred function starts the goroutine
rmPeerSave(k) ==
  /\ pmPc[k].op = "rmPeer"
  /\ pmPc[k].pc = "save"
  /\ IF ConfigPath # ""
       THEN /\ \E ok \in BOOLEAN :
                 savedPeers' = IF ok THEN clusterPeers ELSE savedPeers
            /\ pmEffects' = Append(pmEffects,
                                   Effect(k, "config.Save", pmPc[k].peer))
       ELSE UNCHANGED <<savedPeers, pmEffects>>
  /\ selfPc' = IF pmPc[k].peer = Self THEN "sleep" ELSE selfPc
  /\ PmReturn(k, NoErr)
  /\ UNCHANGED <<peerSet, peerstore, clusterPeers, pmCalls, selfErr, raftDb>>
  /\ pmFrame

\* the goroutine of rmPeer, line 84: time.Sleep(time.Second)
selfSleep ==
  /\ selfPc = "sleep"
  /\ selfPc' = "consensus"
  /\ UNCHANGED <<peerSet, peerstore, clusterPeers, savedPeers, pmPc, pmCalls,
                 pmEffects, selfErr, raftDb>>
  /\ pmFrame

\* the caller of Consensus.Shutdown that the goroutine is: the first for
\* line 85, the second for the call that cluster.Shutdown makes
SelfStopper == IF selfPc = "consensus" THEN "stopper1" ELSE "stopper2"

\* the goroutine is in a call of Consensus.Shutdown
selfInShutdown == selfPc \in {"consensus", "cluster"}

\* the goroutine of rmPeer, line 85: pm.cluster.consensus.Shutdown() has
\* returned and its error is dropped; a panic ends the goroutine
selfConsensusDone ==
  /\ selfPc = "consensus"
  /\ ccPc["stopper1"] = "done"
  /\ selfPc' = IF ccRet["stopper1"] = "panic" THEN "crashed" ELSE "cluster"
  /\ UNCHANGED <<peerSet, peerstore, clusterPeers, savedPeers, pmCalls, pmPc,
                 pmEffects, selfErr, raftDb>>
  /\ pmFrame

\* cluster.Shutdown: it shuts the Consensus component down and returns its
\* error; the other components are shut down too, and one of them may fail
clusterShutdownReturn ==
  /\ selfPc = "cluster"
  /\ ccPc["stopper2"] = "done"
  /\ IF ccRet["stopper2"] = "panic"
       THEN /\ selfPc' = "crashed"
            /\ UNCHANGED selfErr
       ELSE /\ selfPc' = "remove"
            /\ \E ok \in BOOLEAN :
                 selfErr' = IF ok /\ ccRet["stopper2"] = "nil"
                              THEN "nil" ELSE "error"
  /\ UNCHANGED <<peerSet, peerstore, clusterPeers, savedPeers, pmCalls, pmPc,
                 pmEffects, raftDb>>
  /\ pmFrame

\* selfShutdown that removes raft.db whatever cluster.Shutdown returned
selfShutdownAlways ==
  /\ selfPc = "remove"
  /\ raftDb' = "removed"
  /\ selfPc' = "done"
  /\ UNCHANGED <<peerSet, peerstore, clusterPeers, savedPeers, pmCalls, pmPc,
                 pmEffects, selfErr>>
  /\ pmFrame

\* selfShutdown, lines 98-109: os.Remove of raft.db when cluster.Shutdown
\* returned nil
selfShutdown ==
  /\ selfPc = "remove"
  /\ raftDb' = IF selfErr = "nil" THEN "removed" ELSE raftDb
  /\ selfPc' = "done"
  /\ UNCHANGED <<peerSet, peerstore, clusterPeers, savedPeers, pmCalls, pmPc,
                 pmEffects, selfErr>>
  /\ pmFrame

\* the peer manager with its callers, the goroutine that shuts the removed
\* local peer down and the Consensus component this goroutine stops
NextPeers ==
  \/ \E k \in PmCallers, a \in PmAddrs : addPeer(k, a)
  \/ \E k \in PmCallers : addPeerCheck(k)
  \/ \E k \in PmCallers : addPeerRecord(k)
  \/ \E k \in PmCallers : addPeerStore(k)
  \/ \E k \in PmCallers : addPeerConfig(k)
  \/ \E k \in PmCallers : addPeerNotify(k)
  \/ \E k \in PmCallers : addPeerSave(k)
  \/ \E k \in PmCallers, p \in PmPeers : rmPeer(k, p)
  \/ \E k \in PmCallers : rmPeerDelete(k)
  \/ \E k \in PmCallers : rmPeerClear(k)
  \/ \E k \in PmCallers : rmPeerSelf(k)
  \/ \E k \in PmCallers : rmPeerSave(k)
  \/ selfSleep
  \/ selfInShutdown /\ ccShutdownEnter(SelfStopper)
  \/ selfInShutdown /\ ccClose(SelfStopper)
  \/ selfInShutdown /\ ccSignal(SelfStopper)
  \/ ccRunExit
  \/ selfInShutdown /\ ccSnapshot(SelfStopper)
  \/ selfInShutdown /\ ccRaftShutdown(SelfStopper)
  \/ selfInShutdown /\ ccFinish(SelfStopper)
  \/ selfConsensusDone
  \/ clusterShutdownReturn
  \/ selfShutdown

SpecPeers == Init /\ [][NextPeers]_vars

\* ---------------------------------------------------------------- allocator
\* informer.NumpinMetricName
NumpinMetricName == "numpin"

\* api.Metric: a name, a value, whether it is valid and when it expires
\* (Now is the present)
Metric(n, v, valid, e) == [Name |-> n, Value |-> v, Valid |-> valid, Expire |-> e]

\* the metrics of the candidates: two numbers of pins, a metric of another
\* name, an invalid one, an expired one and one whose value is no number
Metrics ==
  {Metric(NumpinMetricName, "1", TRUE, Now + 1),
   Metric(NumpinMetricName, "2", TRUE, Now + 1),
   Metric("other", "1", TRUE, Now + 1),
   Metric(NumpinMetricName, "1", FALSE, Now + 1),
   Metric(NumpinMetricName, "1", TRUE, Now - 1),
   Metric(NumpinMetricName, "x", TRUE, Now + 1)}

\* the peers that may be candidates
AllocPeers == Peers \cup {NewPeer}

\* the maps of candidates: some of the peers, each with a metric
CandidateMaps ==
  UNION {[S -> Metrics] : S \in SUBSET AllocPeers}

\* api.Metric.Discard: the metric is not valid or has expired
Discard(v) == ~v.Valid \/ Now > v.Expire

\* strconv.Atoi on the values of the metrics: the number, or an error for
\* "x"
AtoiErr(v) == v \notin {"1", "2"}
Atoi(v) == IF v = "1" THEN 1 ELSE IF v = "2" THEN 2 ELSE 0

\* newMetricsSorter that keeps the metrics Discard() tells it to drop
newMetricsSorterKeepsAll(m) ==
  LET kept == {k \in DOMAIN m :
                 /\ m[k].Name = NumpinMetricName
                 /\ ~AtoiErr(m[k].Value)}
  IN  [k \in kept |-> Atoi(m[k].Value)]

\* newMetricsSorter, lines 47-67: vMap, the numbers of pins of the peers whose
\* metric has the name of the numpin informer, is not to be discarded and
\* has a number for its value; peers holds the keys of vMap
newMetricsSorter(m) ==
  LET kept == {k \in DOMAIN m :
                 /\ ~(m[k].Name # NumpinMetricName \/ Discard(m[k]))
                 /\ ~AtoiErr(m[k].Value)}
  IN  [k \in kept |-> Atoi(m[k].Value)]

\* the orders in which the iteration over a map may give the peers of S
Orders(S) ==
  {q \in [1..Cardinality(S) -> S] : \A i, j \in DOMAIN q : q[i] = q[j] => i = j}

\* metricsSorter.Less, lines 75-83, on the peers a and b
Less(vMap, a, b) == vMap[a] < vMap[b]

\* sort.Sort(numpins), line 36: the peers in an order in which no peer comes
\* before one that is Less; peers that are not Less than each other stay in
\* the order the map iteration of newMetricsSorter gave them, which is any
Sorted(vMap) ==
  {q \in Orders(DOMAIN vMap) :
     \A i, j \in DOMAIN q : i < j => ~Less(vMap, q[j], q[i])}

\* allocator.Allocate, lines 33-38
Allocate(c, current, candidates) ==
  /\ Len(allocCalls) < MaxAllocs
  /\ \E peers \in Sorted(newMetricsSorter(candidates)) :
       allocCalls' = Append(allocCalls,
                            [c |-> c, current |-> current,
                             candidates |-> candidates, peers |-> peers])
  /\ UNCHANGED <<tracker, lifecycle, consensus, peermgr>>

\* the allocator with its callers
NextAlloc ==
  \E candidates \in CandidateMaps : Allocate("c1", << >>, candidates)

SpecAlloc == Init /\ [][NextAlloc]_vars

\* ------------------------------------------------------------------ restart
\* the operations committed while the component runs
RestartOps ==
  {op([Cid |-> c, Allocations |-> {"peerA"}, Everywhere |-> FALSE], LogOpPin) :
     c \in Cids} \cup {op(CidArgCid("c1"), LogOpUnpin)}

\* an operation is committed while raft is up
CommitWhileUp(o) ==
  /\ ccRaft = "up"
  /\ ApplyOp(o)

\* the state after the operations ops, applied in order to the state st
RECURSIVE Replay(_, _)
Replay(st, ops) ==
  IF ops = << >> THEN st ELSE Replay(ApplyTo(st, Head(ops)), Tail(ops))

\* a restart that takes the state from the latest snapshot alone
RestoreSnapshotOnly ==
  IF ccSnapshots = << >> THEN << >>
  ELSE ccSnapshots[Len(ccSnapshots)].state

\* what raft restores from the data folder: the latest snapshot and the
\* operations of the log after it
Restore ==
  IF ccSnapshots = << >> THEN Replay(<< >>, log)
  ELSE Replay(ccSnapshots[Len(ccSnapshots)].state,
              SubSeq(log, ccSnapshots[Len(ccSnapshots)].index + 1, Len(log)))

\* NewConsensus on the data folder of a component whose raft is down: a new
\* component, with the state that raft restores
Restart ==
  /\ ccRaft = "down"
  /\ \A k \in Stoppers : ccPc[k] \in {"idle", "done"}
  /\ Len(ccSnapshots) < MaxSnapshots
  /\ PinMap' = Restore
  /\ ccShutdown' = FALSE
  /\ ccRpcReady' = "open"
  /\ ccShutdownCh' = 0
  /\ ccLock' = ""
  /\ ccRun' = "waiting"
  /\ ccRaft' = "up"
  /\ ccPc' = [k \in Stoppers |-> "idle"]
  /\ ccErrs' = [k \in Stoppers |-> {}]
  /\ ccRet' = [k \in Stoppers |-> "none"]
  /\ ccClient' = FALSE
  /\ ccRpcBuf' = 0
  /\ ccReadyCh' = 0
  /\ ccBoot' = "sync"
  /\ ccSetPc' = "idle"
  /\ ccSync' = "none"
  /\ ccReadySent' = 0
  /\ UNCHANGED <<ccSnapshots, log, logcall, tracker, lifecycle, cluster>>

\* the Consensus component with the callers of its Shutdown, the operations
\* committed meanwhile and its restart
NextRestart ==
  \/ \E k \in Stoppers : ccShutdownEnter(k)
  \/ \E k \in Stoppers : ccClose(k)
  \/ \E k \in Stoppers : ccSignal(k)
  \/ ccRunExit
  \/ \E k \in Stoppers : ccSnapshot(k)
  \/ \E k \in Stoppers : ccRaftShutdown(k)
  \/ \E k \in Stoppers : ccFinish(k)
  \/ \E o \in RestartOps : CommitWhileUp(o)
  \/ Restart

SpecRestart == Init /\ [][NextRestart]_vars

TypeOK ==
  /\ DOMAIN status \subseteq Cids
  /\ \A c \in DOMAIN status : status[c].Status \in TrackerStatuses
  /\ Len(pinCh) <= PinQueueSize
  /\ Len(unpinCh) <= PinQueueSize
  /\ ipfs \subseteq Cids
  /\ nops \in 0..MaxOps + 1

\* =================================================================== claims
\* the status of a Cid as Status(cid) reports it
StatusOf(m, c) == unsafeGet(m, c).Status

\* The reconciliation table of the specification, section 4.3: the status
\* of an entry after Sync, for its status s before, the daemon's answer d
\* and whether the entry is older than the timeout of its status.  The cell
\* (Unpinned, daemon pinned) is the parameter unexpected.
ReconcileTable(s, d, late, unexpected) ==
  IF IsPinned(d)
    THEN CASE s = TrackerStatusPinning -> TrackerStatusPinned
           [] s = TrackerStatusUnpinning ->
                IF late THEN TrackerStatusUnpinError ELSE s
           [] s = TrackerStatusUnpinned -> unexpected
           [] s = TrackerStatusPinError -> TrackerStatusPinned
           [] OTHER -> s
    ELSE CASE s = TrackerStatusPinned -> TrackerStatusPinError
           [] s = TrackerStatusPinning ->
                IF late THEN TrackerStatusPinError ELSE s
           [] s = TrackerStatusUnpinning -> TrackerStatusUnpinned
           [] s = TrackerStatusUnpinError -> TrackerStatusUnpinned
           [] OTHER -> s

Late(p) ==
  CASE p.Status = TrackerStatusPinning -> Since(p.TS) > PinningTimeout
    [] p.Status = TrackerStatusUnpinning -> Since(p.TS) > UnpinningTimeout
    [] OTHER -> FALSE

\* A reconciliation of client t (Sync after a successful daemon query)
\* follows the table: reading the entry, it leaves it alone exactly when the
\* table says the status stays, and the write it otherwise makes, on the
\* entry as it was read, produces the status of the table.
Reconciles(t, unexpected) ==
  LET c == loc[t].c
      p == unsafeGet(status, c)
  IN /\ (pc[t] = "syncStatus_get" /\ pc'[t] # pc[t]) =>
          LET to == ReconcileTable(p.Status, loc[t].ips, Late(p), unexpected)
          IN IF to = p.Status
               THEN pc'[t] = "syncStatus_ret" /\ status' = status
               ELSE pc'[t] = "syncStatus_set" /\ status' = status
     /\ (pc[t] = "syncStatus_set" /\ pc'[t] # pc[t]
           /\ p.Status = loc[t].p.Status) =>
          StatusOf(status', c) =
            ReconcileTable(loc[t].p.Status, loc[t].ips, TRUE, unexpected)

\* C1 as stated: every Sync whose daemon query succeeds leaves the entry in
\* the status of the table of section 4.3, whose cell (Unpinned, daemon
\* pinned) is PinError.
C1_TableAsStated ==
  [][\A t \in Clients : Reconciles(t, TrackerStatusPinError)]_vars

\* C1 amended: every Sync whose daemon query succeeds leaves the entry in
\* the status of the table of section 4.3 with the cell (Unpinned, daemon
\* pinned) read as UnpinError.
C1_Table ==
  [][\A t \in Clients : Reconciles(t, TrackerStatusUnpinError)]_vars

\* C1 witness: a Sync has returned an entry it moved from Pinned to
\* PinError because the daemon did not hold the pin
C1_Witness ==
  \E t \in Clients :
    /\ ret[t].op = "Sync" /\ ret[t].err = NoErr
    /\ ret[t].info.Status = TrackerStatusPinError
    /\ ret[t].info.Error = errUnpinned

\* the write of a successful Sync(c) on a Cid without entry that the daemon
\* reports pinned
UnexpectedlyPinned(t, s) ==
  LET c == loc[t].c IN
  /\ (pc[t] = "syncStatus_get" /\ pc'[t] # pc[t]
        /\ c \notin DOMAIN status /\ IsPinned(loc[t].ips)) =>
       pc'[t] = "syncStatus_set"
  /\ (pc[t] = "syncStatus_set" /\ pc'[t] # pc[t]
        /\ loc[t].p.Status = TrackerStatusUnpinned
        /\ c \notin DOMAIN status /\ IsPinned(loc[t].ips)) =>
       /\ c \in DOMAIN status'
       /\ status'[c].Status = s
       /\ status'[c].Error = errPinned

\* C2 as stated: Sync(cid) of a Cid without entry that the daemon reports
\* pinned makes the entry PinError with the error "unexpectedly pinned".
C2_PinErrorAsStated ==
  [][\A t \in Clients : UnexpectedlyPinned(t, TrackerStatusPinError)]_vars

\* C2 amended: Sync(cid) of a Cid without entry that the daemon reports
\* pinned makes the entry UnpinError with the error "unexpectedly pinned".
C2_UnpinError ==
  [][\A t \in Clients : UnexpectedlyPinned(t, TrackerStatusUnpinError)]_vars

\* C2 witness: an entry created by Sync for a Cid the daemon unexpectedly
\* holds
C2_Witness ==
  \E c \in DOMAIN status :
    /\ status[c].Error = errPinned
    /\ \E t \in Clients : ret[t].op = "Sync" /\ ret[t].info = status[c]

\* the entries of every Cid but c are what they were
OthersUnchanged(c) ==
  /\ DOMAIN status' \ {c} = DOMAIN status \ {c}
  /\ \A d \in DOMAIN status \ {c} : status'[d] = status[d]

\* The steps of a Track(c) of client t that finds pinCh full: the select
\* takes its default branch at once, and the step after it records c as
\* PinError with ErrPinQueueFull, if Track's own set(Pinning) is still the
\* entry of c, and returns ErrPinQueueFull; neither step touches the queues
\* or the entry of any other Cid.
TrackOnFullQueue(t) ==
  LET c == loc[t].c IN
  /\ (pc[t] = "Track_send" /\ Len(pinCh) = PinQueueSize) =>
       ENABLED TrackSend(t)
  /\ (pc[t] = "Track_send" /\ pc'[t] # pc[t] /\ Len(pinCh) = PinQueueSize) =>
       /\ pc'[t] = "Track_full"
       /\ UNCHANGED <<status, pinCh, unpinCh, ipfs>>
  /\ (pc[t] = "Track_full" /\ pc'[t] # pc[t]) =>
       /\ pc'[t] = "idle"
       /\ ret'[t].op = "Track" /\ ret'[t].err = ErrPinQueueFull
       /\ UNCHANGED <<pinCh, unpinCh, ipfs>>
       /\ OthersUnchanged(c)
       /\ StatusOf(status, c) = TrackerStatusPinning =>
            /\ c \in DOMAIN status'
            /\ status'[c].Status = TrackerStatusPinError
            /\ status'[c].Error = ErrPinQueueFull

\* C3: with pinCh full, Track of a locally allocated Cid does not block,
\* records the Cid as PinError with the queue-full error, returns that error
\* and leaves the queue and the entries of the queued Cids as they are.
C3_TrackQueueFull == [][\A t \in Clients : TrackOnFullQueue(t)]_vars

\* C3 witness: Track was refused for a Cid while another Cid waits in the
\* full pin queue with its entry still Pinning
C3_Witness ==
  \E t \in Clients, c \in DOMAIN status :
    /\ ret[t].op = "Track" /\ ret[t].err = ErrPinQueueFull
    /\ status[c].Status = TrackerStatusPinError
    /\ status[c].Error = ErrPinQueueFull
    /\ Len(pinCh) = PinQueueSize
    /\ \E d \in DOMAIN status \ {c} :
         d = Head(pinCh) /\ status[d].Status = TrackerStatusPinning

\* The steps of an Untrack(c) of client t: whatever the entry was, the call
\* makes it Unpinning; with unpinCh full the select takes its default
\* branch, and the step after it records c as UnpinError with
\* ErrUnpinQueueFull, if Untrack's own set(Unpinning) is still the entry of
\* c, and returns ErrUnpinQueueFull.
UntrackOnFullQueue(t) ==
  LET c == loc[t].c IN
  /\ (pc[t] = "idle" /\ pc'[t] = "Untrack_send") =>
       StatusOf(status', loc'[t].c) = TrackerStatusUnpinning
  /\ (pc[t] = "Untrack_send" /\ pc'[t] # pc[t]
        /\ Len(unpinCh) = PinQueueSize) =>
       /\ pc'[t] = "Untrack_full"
       /\ UNCHANGED <<status, pinCh, unpinCh, ipfs>>
  /\ (pc[t] = "Untrack_full" /\ pc'[t] # pc[t]) =>
       /\ pc'[t] = "idle"
       /\ ret'[t].op = "Untrack" /\ ret'[t].err = ErrUnpinQueueFull
       /\ StatusOf(status, c) = TrackerStatusUnpinning =>
            /\ c \in DOMAIN status'
            /\ status'[c].Status = TrackerStatusUnpinError
            /\ status'[c].Error = ErrUnpinQueueFull

StatusCalled(t, c) ==
  /\ nops' = nops + 1
  /\ ret'[t].op = "Status"
  /\ ret'[t].info.Cid = c

\* C5: no entry of the map, and none returned by StatusAll, has the status
\* Unpinned; Status(cid) of a Cid without entry returns Unpinned with an
\* empty error and creates no entry.
C5_UnpinnedNotStored ==
  [][/\ \A c \in DOMAIN status' :
          status'[c].Status # TrackerStatusUnpinned
     /\ \A t \in Clients : \A i \in ret'[t].all :
          i.Status # TrackerStatusUnpinned
     /\ \A t \in Clients, c \in Cids :
          (StatusCalled(t, c) /\ c \notin DOMAIN status) =>
            /\ ret'[t].info.Status = TrackerStatusUnpinned
            /\ ret'[t].info.Error = NoErr
            /\ ret'[t].err = NoErr
            /\ status' = status]_vars

\* C5 witness: Status reports Unpinned for a Cid whose entry an unpin has
\* removed from the map
C5_Witness ==
  \E t \in Clients, c \in Cids :
    /\ ret[t].op = "Status" /\ ret[t].info.Cid = c
    /\ ret[t].info.Status = TrackerStatusUnpinned
    /\ c \notin DOMAIN status
    /\ hist[c] = "U"

\* nothing is queued and no goroutine is at work
Quiescent ==
  /\ \A t \in Threads : pc[t] = "idle"
  /\ pinCh = << >>
  /\ unpinCh = << >>

\* C6 as stated: once a Track of a PinSpec allocated elsewhere has returned
\* and the queues have drained, the entry is Remote and the daemon does not
\* hold the pin, also when the Cid had been tracked locally before.
C6_RemoteAsStated ==
  \A c \in Cids :
    (hist[c] \in {"R", "TR"} /\ healthy /\ Quiescent) =>
      /\ StatusOf(status, c) = TrackerStatusRemote
      /\ c \notin ipfs

\* a pin of c is waiting in pinCh or the pin worker has not yet sent it to
\* the daemon; likewise for an unpin
InSeq(q, c) == \E i \in 1..Len(q) : q[i] = c
PinPending(c) ==
  \/ InSeq(pinCh, c)
  \/ pc["pinWorker"] \in {"pin_set", "pin_call"} /\ loc["pinWorker"].c = c
UnpinPending(c) ==
  \/ InSeq(unpinCh, c)
  \/ pc["unpinWorker"] = "unpin_call" /\ loc["unpinWorker"].c = c

\* C7 as stated: two operations on one Cid reach the daemon in the order
\* in which they were accepted: after Track(c) then Untrack(c) the daemon
\* unpin of c is not executed while the pin of c is still to come, and
\* after Untrack(c) then Track(c) the daemon pin of c is not executed while
\* the unpin of c is still to come (on a daemon that has not failed).
C7_OrderAsStated ==
  [][\A c \in Cids :
       /\ (/\ hist[c] = "TU"
           /\ pc["unpinWorker"] = "unpin_call" /\ loc["unpinWorker"].c = c
           /\ pc'["unpinWorker"] = "unpin_done" /\ healthy') => ~PinPending(c)
       /\ (/\ hist[c] = "UT"
           /\ pc["pinWorker"] = "pin_call" /\ loc["pinWorker"].c = c
           /\ pc'["pinWorker"] = "pin_done" /\ healthy') => ~UnpinPending(c)]_vars

\* C8 as stated, in the form a finite run refutes: after Track(c) then
\* Untrack(c) on a healthy daemon, once both workers have done their work
\* and nothing is left to do, the tracker holds no entry for c.
C8_ConvergesAsStated ==
  \A c \in Cids :
    (hist[c] = "TU" /\ healthy /\ Quiescent) => c \notin DOMAIN status

\* a step in which a successful Sync(c) of client t returns
SyncReturns(t, c) ==
  /\ pc[t] = "syncStatus_ret" /\ pc'[t] = "idle"
  /\ loc[t].c = c

\* C9 as stated: Track(c) of a locally allocated Cid followed by Sync(c), on
\* a daemon that never fails, yields Pinned as the result of that Sync.
C9_PinnedAsStated ==
  [][\A t \in Clients, c \in Cids :
       (SyncReturns(t, c) /\ hist[c] = "T" /\ healthy) =>
         ret'[t].info.Status = TrackerStatusPinned]_vars

\* C9 amended: Track(c) of a locally allocated Cid followed by Sync(c), on a
\* daemon that never fails, yields Pinned if the daemon held the pin when
\* Sync asked it; if the pin worker had not pinned c by then, Sync returns
\* the entry as Pinning, Pinned or PinError.
C9_PinnedOncePinned ==
  [][\A t \in Clients, c \in Cids :
       (SyncReturns(t, c) /\ hist[c] = "T" /\ healthy) =>
         /\ ret'[t].op = "Sync" /\ ret'[t].err = NoErr
         /\ IsPinned(loc[t].ips) =>
              ret'[t].info.Status = TrackerStatusPinned
         /\ ret'[t].info.Status \in
              {TrackerStatusPinning, TrackerStatusPinned,
               TrackerStatusPinError}]_vars

\* C9 witness: after Track(c), a Sync(c) on a healthy daemon has returned
\* Pinned
C9_Witness ==
  \E t \in Clients, c \in Cids :
    /\ hist[c] = "T" /\ healthy
    /\ ret[t].op = "Sync" /\ ret[t].info.Cid = c
    /\ ret[t].info.Status = TrackerStatusPinned

\* a step in which client t calls Recover(c)
RecoverCalled(t, c) ==
  /\ pc[t] = "idle"
  /\ nops' = nops + 1
  /\ \/ pc'[t] = "idle" /\ ret'[t].op = "Recover" /\ ret'[t].info.Cid = c
     \/ pc'[t] # "idle" /\ loc'[t].op = "Recover" /\ loc'[t].c = c

\* C10: Recover(cid) of an entry that is neither PinError nor UnpinError
\* returns the current entry and no error, calls the daemon not at all and
\* leaves the map and both queues as they are.
C10_RecoverNoError ==
  [][\A t \in Clients, c \in Cids :
       (/\ RecoverCalled(t, c)
        /\ StatusOf(status, c) \notin
             {TrackerStatusPinError, TrackerStatusUnpinError}) =>
         /\ pc'[t] = "idle"
         /\ ret'[t].info = unsafeGet(status, c)
         /\ ret'[t].err = NoErr
         /\ UNCHANGED <<status, pinCh, unpinCh, ipfs>>]_vars

\* C10 witness: Recover has returned an entry that is Pinning, unchanged
C10_Witness ==
  \E t \in Clients, c \in DOMAIN status :
    /\ ret[t].op = "Recover" /\ ret[t].err = NoErr
    /\ ret[t].info = status[c]
    /\ status[c].Status = TrackerStatusPinning

\* The steps of a Recover(c) of client t on an entry in an error state: the
\* call goes to pin() for PinError and to unpin() for UnpinError without
\* returning in between, none of its steps touches pinCh or unpinCh, the
\* daemon holds the pin after a pin that succeeded and does not hold it after
\* an unpin that succeeded, the write that ends pin()/unpin(), on the entry
\* as the call left it, makes it Pinned (absent) on success and PinError
\* (UnpinError) with the daemon's error otherwise, and the call returns the
\* entry and that error.
RecoverRetries(t) ==
  LET c == loc[t].c
      mine == loc[t].op = "Recover" /\ pc'[t] # pc[t]
  IN /\ \A d \in Cids :
          /\ (RecoverCalled(t, d)
                /\ StatusOf(status, d) = TrackerStatusPinError) =>
               pc'[t] = "pin_set" /\ UNCHANGED <<status, ipfs>>
          /\ (RecoverCalled(t, d)
                /\ StatusOf(status, d) = TrackerStatusUnpinError) =>
               pc'[t] = "unpin_call" /\ UNCHANGED <<status, ipfs>>
          /\ RecoverCalled(t, d) => UNCHANGED <<pinCh, unpinCh>>
     /\ mine => UNCHANGED <<pinCh, unpinCh>>
     /\ (mine /\ pc[t] = "pin_call") =>
          /\ pc'[t] = "pin_done"
          /\ loc'[t].err = NoErr => c \in ipfs'
          /\ loc'[t].err # NoErr => ipfs' = ipfs
     /\ (mine /\ pc[t] = "unpin_call") =>
          /\ pc'[t] = "unpin_done"
          /\ loc'[t].err = NoErr => c \notin ipfs'
          /\ loc'[t].err # NoErr => ipfs' = ipfs
     /\ (mine /\ pc[t] = "pin_done"
           /\ StatusOf(status, c) = TrackerStatusPinning) =>
          /\ pc'[t] = "Recover_ret"
          /\ c \in DOMAIN status'
          /\ status'[c].Status = IF loc[t].err = NoErr
                                   THEN TrackerStatusPinned
                                   ELSE TrackerStatusPinError
          /\ status'[c].Error = loc[t].err
     /\ (mine /\ pc[t] = "unpin_done"
           /\ StatusOf(status, c) = TrackerStatusUnpinError) =>
          /\ pc'[t] = "Recover_ret"
          /\ IF loc[t].err = NoErr
               THEN c \notin DOMAIN status'
               ELSE /\ c \in DOMAIN status'
                    /\ status'[c].Status = TrackerStatusUnpinError
                    /\ status'[c].Error = loc[t].err
     /\ (mine /\ pc[t] = "Recover_ret") =>
          /\ pc'[t] = "idle"
          /\ ret'[t].op = "Recover"
          /\ ret'[t].err = loc[t].err
          /\ ret'[t].info = unsafeGet(status, c)
          /\ status' = status

\* C11: Recover(cid) of a PinError entry calls the daemon pin itself, past
\* the queue, and returns with the entry Pinned if the daemon succeeded and
\* PinError with the error returned if it failed; of an UnpinError entry it
\* calls the daemon unpin and returns with the entry absent if the daemon
\* succeeded and UnpinError with the error returned if it failed.
C11_RecoverRetries == [][\A t \in Clients : RecoverRetries(t)]_vars

\* C11 witness: a Recover of a PinError entry has pinned on the daemon and
\* is about to return the entry as Pinned
C11_Witness ==
  \E t \in Clients :
    /\ pc[t] = "Recover_ret" /\ loc[t].err = NoErr
    /\ loc[t].p.Status = TrackerStatusPinError
    /\ StatusOf(status, loc[t].c) = TrackerStatusPinned
    /\ loc[t].c \in ipfs

\* The steps of a Sync(c) of client t that reads a Pinning entry, the daemon
\* reporting c unpinned: an entry stamped more than PinningTimeout ago is
\* made PinError with errPinningTimeout (if it is still Pinning when the
\* write comes), a younger one is left as it is.
SyncOfPinning(t) ==
  LET c == loc[t].c
      p == unsafeGet(status, c)
  IN /\ (pc[t] = "syncStatus_get" /\ pc'[t] # pc[t]
           /\ p.Status = TrackerStatusPinning /\ ~IsPinned(loc[t].ips)) =>
          /\ status' = status
          /\ pc'[t] = IF p.TS > PinningTimeout THEN "syncStatus_set"
                                              ELSE "syncStatus_ret"
     /\ (pc[t] = "syncStatus_set" /\ pc'[t] # pc[t]
           /\ loc[t].p.Status = TrackerStatusPinning /\ ~IsPinned(loc[t].ips)
           /\ p.Status = TrackerStatusPinning) =>
          /\ status'[c].Status = TrackerStatusPinError
          /\ status'[c].Error = errPinningTimeout

\* the stamp of an entry that stays Pinning over a step only grows older
StampOfTransition ==
  \A c \in DOMAIN status \cap DOMAIN status' :
    (/\ status[c].Status = TrackerStatusPinning
     /\ status'[c].Status = TrackerStatusPinning) =>
      status'[c].TS \in {status[c].TS, Older(status[c]).TS}

\* every write that leaves an entry Pinning stamps it with the present time,
\* also when the entry was Pinning before: the Track of a locally allocated
\* Cid and the set(Pinning) that opens pin()
StampOfWrite ==
  /\ \A c \in DOMAIN status' :
       (/\ status'[c].Status = TrackerStatusPinning
        /\ c \in DOMAIN status => status'[c] \notin {status[c], Older(status[c])})
       => status'[c].TS = Now
  /\ \A t \in Threads :
       (pc[t] = "pin_set" /\ pc'[t] # pc[t]) =>
         status'[loc[t].c] = PinInfo(loc[t].c, TrackerStatusPinning, Now, NoErr)
  /\ \A t \in Clients :
       (pc[t] = "idle" /\ pc'[t] = "Track_send") =>
         status'[loc'[t].c] =
           PinInfo(loc'[t].c, TrackerStatusPinning, Now, NoErr)

PinSide ==
  {TrackerStatusPinned, TrackerStatusPinning, TrackerStatusPinError}
UnpinSide == {TrackerStatusUnpinning, TrackerStatusUnpinError}

\* The step of a SyncAll of client t whose daemon query has failed: every
\* entry on the pin side becomes PinError and every entry on the unpin side
\* UnpinError, each with the daemon's error, a Remote entry stays as it is,
\* no entry is added or removed, and the call returns the entries of the
\* map, all of them and nothing else, together with the daemon's error.
SyncAllOnError(t) ==
  (pc[t] = "SyncAll_setErrors" /\ pc'[t] # pc[t]) =>
    /\ DOMAIN status' = DOMAIN status
    /\ \A c \in DOMAIN status :
         /\ status[c].Status \in PinSide =>
              /\ status'[c].Status = TrackerStatusPinError
              /\ status'[c].Error = loc[t].err
         /\ status[c].Status \in UnpinSide =>
              /\ status'[c].Status = TrackerStatusUnpinError
              /\ status'[c].Error = loc[t].err
         /\ status[c].Status = TrackerStatusRemote => status'[c] = status[c]
    /\ pc'[t] = "idle"
    /\ ret'[t].op = "SyncAll"
    /\ ret'[t].all = {status'[c] : c \in DOMAIN status}
    /\ ret'[t].err = loc[t].err /\ ret'[t].err = ErrIPFS
    /\ UNCHANGED <<pinCh, unpinCh, ipfs>>

SyncAllOnSuccess(t) ==
  LET c == loc[t].c
      pInfoNew == unsafeGet(status, c)
      kept == \/ loc[t].orig.Status # pInfoNew.Status
              \/ pInfoNew.Status \in
                   {TrackerStatusPinError, TrackerStatusUnpinError}
  IN /\ (pc[t] = "SyncAll_statusAll" /\ pc'[t] # pc[t]) =>
          /\ {o.Cid : o \in loc'[t].rest} = DOMAIN status
          /\ \A o \in loc'[t].rest : o.Status = status[o.Cid].Status
          /\ loc'[t].pInfos = {}
     /\ (pc[t] = "SyncAll_next" /\ pc'[t] = "syncStatus_get") =>
          /\ loc'[t].orig \in loc[t].rest
          /\ loc'[t].rest = loc[t].rest \ {loc'[t].orig}
          /\ loc'[t].c = loc'[t].orig.Cid
          /\ loc'[t].pInfos = loc[t].pInfos
     /\ (loc[t].op = "SyncAll" /\ pc[t] = "syncStatus_ret"
           /\ pc'[t] # pc[t]) =>
          /\ pc'[t] = "SyncAll_next"
          /\ loc'[t].pInfos =
               IF kept THEN loc[t].pInfos \cup {pInfoNew} ELSE loc[t].pInfos
          /\ (loc[t].orig.Status = pInfoNew.Status
                /\ pInfoNew.Status \in
                     {TrackerStatusPinned, TrackerStatusPinning,
                      TrackerStatusUnpinning, TrackerStatusRemote}) =>
               loc'[t].pInfos = loc[t].pInfos
     /\ (pc[t] = "SyncAll_next" /\ pc'[t] = "idle") =>
          /\ loc[t].rest = {}
          /\ ret'[t].op = "SyncAll"
          /\ ret'[t].all = loc[t].pInfos
          /\ ret'[t].err = NoErr

Reconcilers == {"Sync", "SyncAll", "Recover"}

\* a step of a Sync, SyncAll or Recover of client t: the call itself or a
\* later step of it
ReconcilerStep(t) ==
  \/ /\ pc[t] = "idle" /\ nops' = nops + 1
     /\ \/ ret'[t].op \in Reconcilers
        \/ loc'[t].op \in Reconcilers
  \/ /\ pc[t] # "idle" /\ pc'[t] # pc[t]
     /\ loc[t].op \in Reconcilers

\* C15: no step of a Sync, SyncAll or Recover changes a Remote entry,
\* whatever the daemon answers and whether its query succeeds or fails: the
\* entry stays Remote with an empty error.
C15_RemoteUntouched ==
  [][\A t \in Clients, c \in DOMAIN status :
       (ReconcilerStep(t) /\ status[c].Status = TrackerStatusRemote) =>
         /\ c \in DOMAIN status'
         /\ status'[c] = status[c]
         /\ status'[c].Error = NoErr]_vars

\* C15 witness: a SyncAll whose daemon query failed has returned a Remote
\* entry, still Remote, beside an entry it marked as an error
C15_Witness ==
  \E t \in Clients, c, d \in DOMAIN status :
    /\ ret[t].op = "SyncAll" /\ ret[t].err = ErrIPFS
    /\ status[c].Status = TrackerStatusRemote
    /\ status[c] \in ret[t].all
    /\ status[d].Error = ErrIPFS
    /\ status[d] \in ret[t].all

\* cases of C15 reached besides: syncStatus on a Remote entry whose Cid the
\* daemon holds, and Recover of a Remote entry
C15_SyncOfHeldRemote ==
  \E t \in Clients :
    /\ pc[t] = "syncStatus_ret" /\ IsPinned(loc[t].ips)
    /\ loc[t].p.Status = TrackerStatusRemote
    /\ StatusOf(status, loc[t].c) = TrackerStatusRemote
C15_RecoverOfRemote ==
  \E t \in Clients :
    /\ ret[t].op = "Recover" /\ ret[t].info.Status = TrackerStatusRemote

\* the error of a PinInfo is set exactly if its status is an error status
ErrorIffErrorStatus(i) ==
  (i.Error # NoErr) <=>
    (i.Status \in {TrackerStatusPinError, TrackerStatusUnpinError})

\* C16: in every reachable state the error of an entry is non-empty exactly
\* when its status is PinError or UnpinError, and so it is in every PinInfo
\* a call has returned.
C16_ErrorIffErrorStatus ==
  /\ \A c \in DOMAIN status : ErrorIffErrorStatus(status[c])
  /\ \A t \in Clients :
       /\ ErrorIffErrorStatus(ret[t].info)
       /\ \A i \in ret[t].all : ErrorIffErrorStatus(i)

\* C16 witness: a Recover has read an entry in PinError with its error and
\* its pin() has made the entry Pinning with the error cleared
C16_Witness ==
  \E t \in Clients :
    /\ loc[t].op = "Recover" /\ pc[t] = "pin_call"
    /\ loc[t].p.Status = TrackerStatusPinError /\ loc[t].p.Error # NoErr
    /\ StatusOf(status, loc[t].c) = TrackerStatusPinning
    /\ status[loc[t].c].Error = NoErr

\* The step that ends a worker's pin() or unpin(): with or without an error
\* of the daemon the worker is back at its select, and the entry, if it is
\* still as the item's call and the worker left it, is Pinned or PinError
\* (absent or UnpinError), the error being the daemon's.
WorkerSurvives(w) ==
  LET c == loc[w].c IN
  /\ (pc[w] = "pin_done" /\ pc'[w] # pc[w]) =>
       /\ pc'[w] = "idle"
       /\ StatusOf(status, c) = TrackerStatusPinning =>
            /\ status'[c].Status = IF loc[w].err = NoErr
                                     THEN TrackerStatusPinned
                                     ELSE TrackerStatusPinError
            /\ status'[c].Error = loc[w].err
  /\ (pc[w] = "unpin_done" /\ pc'[w] # pc[w]) =>
       /\ pc'[w] = "idle"
       /\ StatusOf(status, c) = TrackerStatusUnpinning =>
            IF loc[w].err = NoErr
              THEN c \notin DOMAIN status'
              ELSE /\ status'[c].Status = TrackerStatusUnpinError
                   /\ status'[c].Error = loc[w].err

\* the client is in a Track, Untrack or Recover of c
CallOn(c) ==
  \E t \in Clients :
    /\ pc[t] # "idle" /\ loc[t].c = c
    /\ loc[t].op \in {"Track", "Untrack", "Recover"}

\* C17: an error of the daemon does not end a worker: the entry of the item
\* becomes PinError (UnpinError) and the worker returns to its queue; every
\* queue is eventually emptied, every worker eventually idle again, and a
\* Cid whose Track (Untrack) was accepted reaches Pinned or PinError (absent
\* or UnpinError) unless another Track, Untrack or Recover of the same Cid
\* is called first.
C17_WorkersGoOn ==
  /\ [][\A w \in Workers : WorkerSurvives(w)]_vars
  /\ (pinCh # << >>) ~> (pinCh = << >>)
  /\ (unpinCh # << >>) ~> (unpinCh = << >>)
  /\ \A w \in Workers : (pc[w] # "idle") ~> (pc[w] = "idle")
  /\ \A c \in Cids :
       /\ (hist[c] = "T") ~>
            \/ hist[c] # "T" \/ CallOn(c)
            \/ StatusOf(status, c) \in
                 {TrackerStatusPinned, TrackerStatusPinError}
       /\ (hist[c] = "U") ~>
            \/ hist[c] # "U" \/ CallOn(c)
            \/ StatusOf(status, c) \in
                 {TrackerStatusUnpinned, TrackerStatusUnpinError}

\* C17 witness: the pin worker has left one Cid in PinError with the
\* daemon's error and is at work on the next item
C17_Witness ==
  \E c \in DOMAIN status :
    /\ status[c].Status = TrackerStatusPinError
    /\ status[c].Error = ErrIPFS
    /\ hist[c] = "T"
    /\ pc["pinWorker"] = "pin_call"
    /\ loc["pinWorker"].c # c

\* C20: of the calls of mapPinTracker.Shutdown, one after the other or at
\* the same time, one cancels the context and closes rpcReady, once each;
\* every call returns nil, none panics, a call that returns leaves the
\* tracker shut down, and a call that finds it shut down changes nothing.
C20_ShutdownOnce ==
  [][/\ cancels' <= 1
     /\ closes' <= 1
     /\ \A k \in Stoppers :
          /\ sret'[k] \in {"none", "nil"}
          /\ (spc[k] = "idle" /\ spc'[k] # "idle" /\ shutdown) =>
               /\ spc'[k] = "done" /\ sret'[k] = "nil"
               /\ UNCHANGED <<shutdown, ctxDone, rpcReady, shutdownLock,
                              cancels, closes, tracker>>
          /\ (spc[k] # "done" /\ spc'[k] = "done") =>
               /\ shutdown' /\ ctxDone' /\ rpcReady' = "closed"
               /\ cancels' = 1 /\ closes' = 1
               /\ shutdownLock' = ""]_vars

\* C20 witness: two calls of Shutdown have returned nil, and the context was
\* cancelled and rpcReady closed once
C20_Witness ==
  /\ \A k \in Stoppers : spc[k] = "done" /\ sret[k] = "nil"
  /\ shutdown /\ ctxDone /\ rpcReady = "closed"
  /\ cancels = 1 /\ closes = 1

\* a call of mapPinTracker.Shutdown has returned
ShutdownReturned == \E k \in Stoppers : sret[k] = "nil"

\* C18 as stated: once Shutdown has returned, the items that were pending
\* in the queues stay there, no worker taking them, and a worker that was in
\* the middle of an item does not call the daemon any more.
C18_StopsAsStated ==
  [][ShutdownReturned =>
       /\ (pinCh = left.pinCh /\ pc["pinWorker"] = "idle") =>
            pc'["pinWorker"] \in {"idle", "returned"}
       /\ (unpinCh = left.unpinCh /\ pc["unpinWorker"] = "idle") =>
            pc'["unpinWorker"] \in {"idle", "returned"}
       /\ \A w \in Workers :
            (left.pc[w] \in {"pin_set", "pin_call"}
               /\ pc[w] = "pin_call") => pc'[w] = "pin_call"
       /\ \A w \in Workers :
            (left.pc[w] = "unpin_call" /\ pc[w] = "unpin_call") =>
              pc'[w] = "unpin_call"]_vars

\* C19 as stated: whatever the first call of Consensus.Shutdown returned, no
\* later call panics.
C19_TwiceAsStated == \A k \in Stoppers : ccRet[k] # "panic"

\* cases of C19 that hold: a call of Shutdown on a component that the first
\* call has shut down returns nil and changes nothing, and a component once
\* shut down stays so
C19_AfterSuccess ==
  [][/\ ccShutdown => ccShutdown'
     /\ \A k \in Stoppers :
          (ccPc[k] = "idle" /\ ccPc'[k] # "idle" /\ ccShutdown) =>
            /\ ccPc'[k] = "done" /\ ccRet'[k] = "nil"
            /\ UNCHANGED <<ccShutdown, ccRpcReady, ccShutdownCh, ccLock,
                           ccRun, ccRaft, ccSnapshots>>]_vars


\* a committed Pin of c that no committed Unpin of c follows
PinnedInLog(c) ==
  \E i \in 1..Len(log) :
    /\ log[i].Type = LogOpPin
    /\ log[i].Cid.Cid = c
    /\ \A j \in (i + 1)..Len(log) :
         ~(log[j].Type = LogOpUnpin /\ log[j].Cid.Cid = c)

\* C21: after every sequence of committed operations, State.Has(c) holds
\* exactly when some committed Pin of c is not followed by a committed Unpin
\* of c.
C21_HasIffPinned == \A c \in Cids : Has(PinMap, c) <=> PinnedInLog(c)

\* c1 was pinned and unpinned, then c2, which was never pinned, unpinned
C21_Witness ==
  /\ Len(log) = 3
  /\ log[1].Type = LogOpPin /\ log[1].Cid.Cid = "c1"
  /\ log[2].Type = LogOpUnpin /\ log[2].Cid.Cid = "c1"
  /\ log[3].Type = LogOpUnpin /\ log[3].Cid.Cid = "c2"
  /\ ~Has(PinMap, "c1")


\* the operation o is committed in this step
Commits(o) == log' = Append(log, o)

\* the PinSpecs that State.List() holds for the Cid c, with their numbers
ListedFor(st, c) == {cs \in DOMAIN List(st) : cs.Cid = c}

\* C23: a Pin applied a second time with the same PinSpec leaves the State as
\* it was after the first, and after the Pin of a PinSpec, the first for its
\* Cid or not, Get returns that PinSpec and List holds exactly one PinSpec
\* for the Cid.
C23_PinIdempotentUpsert ==
  [][\A o \in LogOps :
       (Commits(o) /\ o.Type = LogOpPin) =>
         /\ (Len(log) > 0 /\ log[Len(log)] = o) => PinMap' = PinMap
         /\ Get(PinMap', o.Cid.Cid) = ToCidArg(o.Cid)
         /\ ListedFor(PinMap', o.Cid.Cid) = {o.Cid}
         /\ List(PinMap')[o.Cid] = 1]_vars

\* c1 was pinned with one PinSpec, then twice with another
C23_Witness ==
  /\ Len(log) = 3
  /\ \A i \in 1..3 : log[i].Type = LogOpPin /\ log[i].Cid.Cid = "c1"
  /\ log[1] # log[2]
  /\ log[2] = log[3]
  /\ Get(PinMap, "c1") = ToCidArg(log[3].Cid)


\* the caller's call returns in this step
LogReturns == Len(lstack) = 1 /\ Top.pc = "ret" /\ lstack' = << >>

\* the RPC calls this call has sent to other peers
SentToPeers(f) ==
  {k \in (f.rpc0 + 1)..Len(rpcs) : rpcs[k].dest \in Peers}

\* the places in the log of the operations committed since the call f began
CommittedSince(f) == {k \in (f.log0 + 1)..Len(log) : log[k] = CallOp(f)}

C24_RmAbsentNoOp ==
  [][/\ \A o \in LogOps :
          (Commits(o) /\ o.Type = LogOpUnpin /\ ~Has(PinMap, o.Cid.Cid)) =>
            PinMap' = PinMap
     /\ (lstack # << >> /\ LogReturns /\ Top.method = "LogUnpin"
           /\ Top.commits > 0) => Top.result = NoErr]_vars

\* LogUnpin of c2 has committed and is about to return nil; the State holds
\* c1 and did not hold c2
C24_Witness ==
  /\ Len(lstack) = 1
  /\ Top.pc = "ret"
  /\ Top.method = "LogUnpin"
  /\ Top.arg.Cid = "c2"
  /\ Top.commits = 1
  /\ Top.result = NoErr
  /\ \A k \in 1..Len(log) : log[k].Cid.Cid = "c2" => k = Len(log)
  /\ Has(PinMap, "c1")
  /\ ~Has(PinMap, "c2")


\* an RPC call is sent in this step
Sends == Len(rpcs') > Len(rpcs)

\* C25 as stated: every RPC call of a log operation goes to the peer that
\* raft has last named as the leader, with the method and the arguments of
\* the call, also after waiting for an election; when that leader is the
\* local peer nothing is sent and the operation goes to the local commit.
C25_ForwardsToLeader ==
  [][/\ (lstack # << >> /\ Sends) =>
          /\ rpcs'[Len(rpcs')].dest = Top.known
          /\ rpcs'[Len(rpcs')].dest \in Peers \ {Self}
          /\ rpcs'[Len(rpcs')].method = RpcOp(Top.method)
          /\ rpcs'[Len(rpcs')].arg = ToSerial(Top.arg)
          /\ rpcs'[Len(rpcs')].peer = Top.peer
     /\ (lstack # << >> /\ Top.pc = "route" /\ Top.known = Self) => ~Sends]_vars

\* the case of C25 that holds: when Leader() names a leader at once, the
\* operation goes to the local commit if that is the local peer and else by
\* RPC to that peer, with the method and the arguments of the call
C25_WithoutWait ==
  [][(lstack # << >> /\ Top.pc = "route" /\ Top.leader # NoLeader
        /\ lstack' # lstack) =>
       IF Top.leader = Self
         THEN ~Sends
         ELSE /\ Sends
              /\ rpcs'[Len(rpcs')] =
                   [dest |-> Top.known, method |-> RpcOp(Top.method),
                    arg |-> ToSerial(Top.arg), peer |-> Top.peer]]_vars


\* the calls that run: the caller's and those the local RPC server runs
Frames == {lstack[k] : k \in 1..Len(lstack)}

\* the attempts of a call never exceed CommitRetries, a call that returns
\* after fewer failed attempts returns nil (or, for LogAddPeer, the error of
\* an address it cannot split), and a call whose attempts have all failed
\* returns the error of the last
RetriesCapped ==
  \A f \in Frames :
    /\ f.i <= CommitRetries
    /\ Len(f.tries) = f.i
    /\ f.commits <= CommitRetries
    /\ f.pc # "ret" => f.i < CommitRetries
    /\ (f.pc = "ret" /\ f.i < CommitRetries) =>
         f.result = IF f.method = "LogAddPeer" /\ f.peer = BadAddr
                         /\ f.leader = Self
                      THEN ErrBadAddr ELSE NoErr
    /\ (f.pc = "ret" /\ f.i = CommitRetries) =>
         /\ f.result = f.tries[CommitRetries].err
         /\ f.result # NoErr

\* every failed attempt that another attempt follows was followed by a sleep
\* of 200 ms; an attempt that has waited LeaderTimeout for a leader needs
\* none
BackoffBetweenAttempts ==
  \A f \in Frames :
    \A k \in 1..Len(f.tries) :
      (k < CommitRetries /\ f.tries[k].kind # "timeout") => f.slept[k]

\* C26 as stated: a log operation makes at most CommitRetries attempts with a
\* backoff of 200 ms between them, returns nil when an attempt succeeds and
\* the error of the last attempt when all have failed.
C26_RetriesWithBackoff == RetriesCapped /\ BackoffBetweenAttempts

\* the part of C26 that holds
C26_RetriesCapped == RetriesCapped


\* all the attempts the call has made have waited LeaderTimeout in vain
OnlyTimeouts(f) == \A k \in 1..Len(f.tries) : f.tries[k].kind = "timeout"

C28_TransportAfterCommit ==
  [][/\ raftPeers' # raftPeers =>
          /\ lstack # << >>
          /\ Top.pc = "transport"
          /\ raftPeers' = IF Top.method = "LogAddPeer"
                            THEN raftPeers \cup {Top.peer}
                            ELSE raftPeers \ {Top.peer}
     /\ (lstack # << >> /\ Top.pc = "transport" /\ lstack' # lstack) =>
          /\ Top.method \in {"LogAddPeer", "LogRmPeer"}
          /\ Top.lastCommit = Top.i
          /\ CommittedSince(Top) # {}]_vars

\* LogAddPeer of the new peer failed to commit in its first attempt, has
\* committed in the second and added the peer to the transport
C28_Witness ==
  /\ Len(lstack) = 1
  /\ Top.pc = "ret"
  /\ Top.method = "LogAddPeer"
  /\ Top.result = NoErr
  /\ Len(Top.tries) = 1
  /\ Top.tries[1].kind = "commit"
  /\ Top.lastCommit = 1
  /\ NewPeer \in raftPeers


\* LogRmPeer(peerB) has committed and removed peerB from the transport
C28_WitnessRm ==
  /\ Len(lstack) = 1
  /\ Top.pc = "ret"
  /\ Top.method = "LogRmPeer"
  /\ Top.result = NoErr
  /\ "peerB" \notin raftPeers


\* C29: the ready channel is sent at most one signal, none before
\* WaitForSync has returned nil, which it does only after a leader has been
\* elected, and none at all when WaitForSync has failed.
C29_ReadyOnce ==
  /\ ccReadySent <= 1
  /\ ccReadyCh <= ccReadySent
  /\ ccReadySent > 0 => ccSync = "ok"
  /\ ccSync = "ok" => elections > 0
  /\ ccSync \in {"leaderErr", "updatesErr"} =>
       ccReadySent = 0 /\ ccBoot = "returned"

\* the signal has been sent after a successful WaitForSync and a reader of
\* Ready() has taken it
C29_Witness ==
  /\ ccSync = "ok"
  /\ ccBoot = "done"
  /\ ccReadySent = 1
  /\ ccReadyCh = 0


C35_SyncWritesForCurrent ==
  [][\A t \in Clients :
       (pc[t] = "syncStatus_set" /\ pc'[t] = "syncStatus_ret") =>
         loc[t].todo =
           syncAction(unsafeGet(status, loc[t].c), loc[t].ips)]_vars


\* what Sync's reconciliation gets for the Cid c when the daemon's listing
\* is ipsMap: a Cid missing from the listing is not pinned
ListedStatus(ipsMap, c) ==
  IF c \in ipsMap THEN IPFSPinStatusPinned ELSE IPFSPinStatusUnpinned

\* the map after syncStatus has written what its table gives for the entry
\* p of the Cid c and the daemon's answer ips
Reconciled(m, c, p, ips) ==
  CASE syncAction(p, ips).kind = "set"
         -> unsafeSet(m, c, syncAction(p, ips).s)
    [] syncAction(p, ips).kind = "setError"
         -> unsafeSetError(m, c, syncAction(p, ips).err)
    [] OTHER -> m

\* C36: a SyncAll whose listing succeeded visits exactly the Cids tracked
\* when it read the map, reconciles each as Sync does, with the daemon's
\* state taken from the listing and a Cid missing from it taken for not
\* pinned, and touches the entry of no other Cid.
C36_SyncAllIsSyncOfEach ==
  [][\A t \in Clients :
       /\ (pc[t] = "SyncAll_statusAll" /\ pc'[t] # pc[t]) =>
            {r.Cid : r \in loc'[t].rest} = DOMAIN status
       /\ (pc[t] = "SyncAll_next" /\ pc'[t] = "syncStatus_get") =>
            /\ loc'[t].c \in {r.Cid : r \in loc[t].rest}
            /\ loc'[t].rest = {r \in loc[t].rest : r.Cid # loc'[t].c}
       /\ (pc[t] = "SyncAll_next" /\ pc'[t] = "idle") => loc[t].rest = {}
       /\ (loc[t].op = "SyncAll" /\ pc[t] = "syncStatus_get"
             /\ pc'[t] # pc[t]) =>
            /\ loc'[t].p = unsafeGet(status, loc[t].c)
            /\ loc'[t].ips = ListedStatus(loc[t].ipsMap, loc[t].c)
            /\ status' = status
       /\ (loc[t].op = "SyncAll" /\ pc[t] \in {"syncStatus_get",
                                               "syncStatus_set"}
             /\ pc'[t] = "syncStatus_ret") =>
            status' = Reconciled(status, loc[t].c, loc'[t].p,
                                 ListedStatus(loc[t].ipsMap, loc[t].c))
       /\ (loc[t].op = "SyncAll" /\ loc'[t].op = "SyncAll"
             /\ loc[t].err = NoErr) =>
            \A c \in Cids \ {loc[t].c} :
              (c \in DOMAIN status' <=> c \in DOMAIN status)
                \/ pc'[t] = pc[t]]_vars

\* SyncAll has returned after it took a Cid missing from the daemon's
\* listing for not pinned and set its entry, Pinning for too long, to
\* PinError
C36_Witness ==
  \E t \in Clients :
    /\ ret[t].op = "SyncAll"
    /\ ret[t].err = NoErr
    /\ pc[t] = "idle"
    /\ \E i \in ret[t].all :
         /\ i.Status = TrackerStatusPinError
         /\ i.Error = errPinningTimeout
         /\ i.Cid \notin ipfs


\* C37: a Sync whose query of the daemon failed returns the error and leaves
\* the set of tracked Cids as it was: a Cid without an entry gets none.
C37_FailedSyncTracksNothing ==
  [][\A t \in Clients :
       /\ (pc[t] = "Sync_setError" /\ pc'[t] # pc[t]) =>
            DOMAIN status' = DOMAIN status
       /\ (pc[t] = "Sync_get" /\ pc'[t] # pc[t]) =>
            /\ ret'[t].err = loc[t].err
            /\ ret'[t].err # NoErr
            /\ DOMAIN status' = DOMAIN status]_vars


\* C38: finishBootstrap goes past its wait for the RPC client, to the
\* StateSync call and the Ready signal, only when SetClient has set the
\* client; it never dereferences a nil client.
C38_ClientBeforeUse == ccBoot \in {"state", "panic", "done"} => ccClient


\* C39: when LogAddPeer or LogRmPeer returns an error, no operation of the
\* call has been committed to the log and the peers of raft's transport are
\* as they were before the call.
C39_FailedChangeLeavesNoTrace ==
  [][(lstack # << >> /\ LogReturns /\ ~IsCidCall(Top.method)
        /\ Top.result # NoErr) =>
       /\ CommittedSince(Top) = {}
       /\ Top.method = "LogAddPeer" => Top.peer \notin raftPeers
       /\ Top.method = "LogRmPeer" => Top.peer \in raftPeers]_vars


\* the candidate has a valid, unexpired metric of the numpin informer whose
\* value is a number
Eligible(v) ==
  /\ v.Name = NumpinMetricName
  /\ v.Valid
  /\ v.Expire >= Now
  /\ v.Value \in {"1", "2"}

\* the number of pins a metric tells
NumPins(v) == IF v.Value = "1" THEN 1 ELSE 2

\* C33: what Allocate returns holds every candidate with a valid, unexpired
\* numpin metric of a numeric value exactly once and no other peer, in the
\* order of their numbers of pins, the smallest first.
C33_AscendingEligible ==
  \A k \in 1..Len(allocCalls) :
    LET call == allocCalls[k]
        out == call.peers
    IN  /\ \A i, j \in DOMAIN out : out[i] = out[j] => i = j
        /\ {out[i] : i \in DOMAIN out} =
             {p \in DOMAIN call.candidates : Eligible(call.candidates[p])}
        /\ \A i, j \in DOMAIN out :
             i < j => NumPins(call.candidates[out[i]])
                        <= NumPins(call.candidates[out[j]])

\* Allocate has ranked three candidates of which one is ineligible and the
\* other two have different numbers of pins
C33_Witness ==
  \E k \in 1..Len(allocCalls) :
    /\ DOMAIN allocCalls[k].candidates = AllocPeers
    /\ Len(allocCalls[k].peers) = 2
    /\ allocCalls[k].candidates[allocCalls[k].peers[1]].Value = "1"
    /\ allocCalls[k].candidates[allocCalls[k].peers[2]].Value = "2"

\* C34: two calls of Allocate with the same Cid, current and candidates
\* return the same peers in the same order.
C34_Deterministic ==
  \A i, j \in 1..Len(allocCalls) :
    (/\ allocCalls[i].c = allocCalls[j].c
     /\ allocCalls[i].current = allocCalls[j].current
     /\ allocCalls[i].candidates = allocCalls[j].candidates) =>
      allocCalls[i].peers = allocCalls[j].peers


\* C31: raft.db is removed only by the goroutine that rmPeer starts for the
\* local peer, only when cluster.Shutdown returned nil, and then the
\* Consensus component is shut down with its snapshot taken and raft down:
\* the file is never removed before the snapshot.
C31_RemovedAfterSnapshot ==
  [][(raftDb = "present" /\ raftDb' = "removed") =>
       /\ selfPc = "remove"
       /\ selfErr = "nil"
       /\ ccShutdown
       /\ ccSnapshots # << >>
       /\ ccRaft = "down"
       /\ \E k \in Stoppers : ccRet[k] = "nil" /\ ccErrs[k] = {}]_vars

\* the local peer was removed, the shutdown worked and raft.db is removed
C31_Witness ==
  /\ raftDb = "removed"
  /\ Self \notin peerSet
  /\ selfPc = "done"

\* the parts of the peer manager's state an addPeer or rmPeer may change
PmData == <<peerSet, peerstore, clusterPeers, savedPeers, pmEffects>>

\* the caller k starts a call in this step
PmStarts(k) ==
  /\ pmCalls' = pmCalls + 1
  /\ pmPc'[k] # pmPc[k]

\* C32: an addPeer that finds the peer ID of its address in the peer set
\* returns nil and leaves the peer set, the Peerstore, the Config and the
\* saved Config alone and does not notify Consensus; one that does not find
\* it records it and goes on to the Peerstore; a rmPeer of a peer that is
\* not in the peer set returns nil and changes nothing.
C32_PresentIsNoOp ==
  [][\A k \in PmCallers :
       /\ (pmPc[k].op = "addPeer" /\ pmPc[k].pc = "check"
             /\ pmPc'[k] # pmPc[k]) =>
            IF pmPc[k].peer \in peerSet
              THEN /\ pmPc'[k].pc = "done"
                   /\ pmPc'[k].err = NoErr
                   /\ UNCHANGED PmData
              ELSE /\ pmPc'[k].pc = "record"
                   /\ UNCHANGED PmData
       /\ (pmPc[k].op = "addPeer" /\ pmPc[k].pc = "record"
             /\ pmPc'[k] # pmPc[k]) =>
            /\ peerSet' = peerSet \cup {pmPc[k].peer}
            /\ pmPc'[k].pc = "peerstore"
       /\ (PmStarts(k) /\ pmPc'[k].op = "rmPeer"
             /\ pmPc'[k].peer \notin peerSet) =>
            /\ pmPc'[k].pc = "done"
            /\ pmPc'[k].err = NoErr
            /\ UNCHANGED PmData]_vars

\* addPeer has returned nil for a second address of peerB, which is in the
\* peer set, and rmPeer for the new peer, which is not, and nothing has
\* changed
C32_Witness ==
  /\ pmPc["caller1"].op = "addPeer"
  /\ pmPc["caller1"].peer = "peerB"
  /\ pmPc["caller1"].pc = "done"
  /\ pmPc["caller2"].op = "rmPeer"
  /\ pmPc["caller2"].peer = NewPeer
  /\ pmPc["caller2"].pc = "done"
  /\ pmEffects = << >>
  /\ peerstore["peerB"] = {"addr1"}

\* the callers that did the thing kind for the peer p
Doers(kind, p) ==
  {pmEffects[i].by : i \in {j \in 1..Len(pmEffects) :
                              /\ pmEffects[j].kind = kind
                              /\ pmEffects[j].peer = p}}

\* the callers whose addPeer has found the peer p absent
Adders(p) ==
  {k \in PmCallers : /\ pmPc[k].op = "addPeer"
                     /\ pmPc[k].peer = p
                     /\ pmPc[k].pc \in {"record", "peerstore", "config",
                                        "consensus", "save"}}

\* nobody has removed the peer p or is about to
NeverRemoved(p) ==
  /\ Doers("consensus.RemovePeer", p) = {}
  /\ \A k \in PmCallers : ~(pmPc[k].op = "rmPeer" /\ pmPc[k].peer = p)

\* C40: of the calls of addPeer for one peer ID, while the peer is not
\* removed, one at most takes the path of the absent peer, and the
\* Peerstore, the Config, the Consensus component and the saved Config are
\* each changed by one call at most.
C40_OneAdder ==
  \A p \in PmPeers :
    NeverRemoved(p) =>
      /\ Cardinality(Adders(p)) <= 1
      /\ \A kind \in {"AddAddr", "config.addPeer", "consensus.AddPeer",
                      "config.Save"} :
           Cardinality(Doers(kind, p)) <= 1

====
